---- MODULE Spec2Model ----
(***************************************************************************)
(* The single-table store of no-excel-pm (packages/backend/src/handlers/db *)
(* and the key builders of packages/shared/types.ts) as a state machine.   *)
(*                                                                         *)
(* The table is a function from the primary key string PK (the sort key is *)
(* always "META") to the stored item.  JavaScript objects are records; an  *)
(* undefined property is an absent record field.  Strings that the code    *)
(* only concatenates are TLA+ strings; strings whose characters matter     *)
(* (ISO timestamps, compared by the index; emails, lower-cased) are        *)
(* sequences.                                                              *)
(***************************************************************************)
EXTENDS Integers, Sequences, FiniteSets, TLC

VARIABLES table, now, last, live, calls, inflight

vars == <<table, now, last, live, calls, inflight>>

(***************************************************************************)
(* Bounds of the model.                                                    *)
(***************************************************************************)
MaxClock == 2
MaxCalls == 3
SeqCalls == 2

(***************************************************************************)
(* Values the requests are drawn from.                                     *)
(***************************************************************************)
Domains == {"acme", "globex"}
Suffixes == {"k3x"}
Clock == 1..MaxClock

Null == [isNull |-> TRUE]

(***************************************************************************)
(* Date.now() and new Date() read the clock.  A call reads it several      *)
(* times, and the millisecond can change between two reads: ts are the     *)
(* values the clock answers to the reads of one call, in the order of the  *)
(* reads.  The clock does not run backwards.                               *)
(***************************************************************************)
ClockReadsFrom(t, n) ==
  {ts \in [1..n -> t..MaxClock] : \A i \in 1..(n - 1) : ts[i] <= ts[i + 1]}

ClockReads(n) == ClockReadsFrom(now, n)

\* the clock after a call that made that many reads
ClockAfter(ts, reads) == IF reads = 0 THEN now ELSE ts[reads]

(***************************************************************************)
(* new Date().toISOString(): every field of the ISO-8601 string is        *)
(* zero-padded to a fixed width, so the string order of two timestamps is  *)
(* their time order.  For the clock values of the model only the           *)
(* millisecond field "sss" of 1970-01-01T00:00:00.sssZ varies; the         *)
(* timestamp is that field, digit by digit.                                *)
(***************************************************************************)
MsDigits == 3

RECURSIVE Pow10(_)
Pow10(n) == IF n = 0 THEN 1 ELSE 10 * Pow10(n - 1)

toISOString(t) == [i \in 1..MsDigits |-> (t \div Pow10(MsDigits - i)) % 10]

(***************************************************************************)
(* String comparison as the index applies it to GSI1SK: lexicographic.     *)
(***************************************************************************)
RECURSIVE StrLeq(_, _)
StrLeq(a, b) ==
  IF a = <<>> THEN TRUE
  ELSE IF b = <<>> THEN FALSE
  ELSE IF Head(a) < Head(b) THEN TRUE
  ELSE IF Head(a) > Head(b) THEN FALSE
  ELSE StrLeq(Tail(a), Tail(b))

(***************************************************************************)
(* String.prototype.toLowerCase on the characters the emails use.          *)
(***************************************************************************)
LowerChar(c) ==
  CASE c = "A" -> "a" [] c = "B" -> "b" [] c = "C" -> "c" [] c = "D" -> "d"
    [] c = "E" -> "e" [] c = "F" -> "f" [] c = "G" -> "g" [] c = "H" -> "h"
    [] c = "I" -> "i" [] c = "J" -> "j" [] c = "K" -> "k" [] c = "L" -> "l"
    [] c = "M" -> "m" [] c = "N" -> "n" [] c = "O" -> "o" [] c = "P" -> "p"
    [] c = "Q" -> "q" [] c = "R" -> "r" [] c = "S" -> "s" [] c = "T" -> "t"
    [] c = "U" -> "u" [] c = "V" -> "v" [] c = "W" -> "w" [] c = "X" -> "x"
    [] c = "Y" -> "y" [] c = "Z" -> "z"
    [] OTHER -> c

toLowerCase(s) == [i \in 1..Len(s) |-> LowerChar(s[i])]

(***************************************************************************)
(* A string as the sequence of its characters, and back.                   *)
(***************************************************************************)
Chars(s) == [i \in 1..Len(s) |-> SubSeq(s, i, i)]

RECURSIVE Join(_)
Join(cs) == IF cs = <<>> THEN "" ELSE Head(cs) \o Join(Tail(cs))

(***************************************************************************)
(* String.prototype.split with a one-character separator and               *)
(* String.prototype.includes, on sequences of characters.                  *)
(***************************************************************************)
RECURSIVE split(_, _)
split(s, sep) ==
  LET hits == {i \in 1..Len(s) : s[i] = sep}
      i == CHOOSE k \in hits : \A j \in hits : k <= j
  IN IF hits = {} THEN <<s>>
     ELSE <<SubSeq(s, 1, i - 1)>> \o split(SubSeq(s, i + 1, Len(s)), sep)

includesString(s, sub) ==
  \E i \in 0..(Len(s) - Len(sub)) : SubSeq(s, i + 1, i + Len(sub)) = sub

\* extractDomain (shared/types.ts)
extractDomain(email) ==
  LET parts == split(email, "@")
  IN IF Len(parts) = 2 THEN toLowerCase(parts[2]) ELSE <<>>

(***************************************************************************)
(* Key builders (shared/types.ts).                                         *)
(***************************************************************************)
buildTaskPK(domain, taskId) == "DOMAIN#" \o domain \o "#TASK#" \o taskId

buildTicketPK(domain, ticketId) == "DOMAIN#" \o domain \o "#TICKET#" \o ticketId

buildSprintPK(domain, sprintId) == "DOMAIN#" \o domain \o "#SPRINT#" \o sprintId

buildUserPK(domain, userId) == "DOMAIN#" \o domain \o "#USER#" \o userId

buildMetaSK == "META"

buildDomainGSI1PK(domain, entityType) ==
  "DOMAIN#" \o domain \o "#TYPE#" \o entityType

(***************************************************************************)
(* JavaScript idioms.                                                      *)
(***************************************************************************)
\* { ...a, ...b }
Spread(a, b) ==
  [k \in DOMAIN a \cup DOMAIN b |-> IF k \in DOMAIN b THEN b[k] ELSE a[k]]

Has(o, k) == k \in DOMAIN o

\* o.k || dflt, for a string property
StrOr(o, k, dflt) == IF Has(o, k) /\ o[k] # "" THEN o[k] ELSE dflt

\* o.k || dflt, for a number property
NumOr(o, k, dflt) == IF Has(o, k) /\ o[k] # 0 THEN o[k] ELSE dflt

\* o.k || dflt, for an array property (an array is always truthy)
ArrOr(o, k, dflt) == IF Has(o, k) THEN o[k] ELSE dflt

\* o with the property k when v is defined (removeUndefinedValues)
WithOpt(o, k, src) == IF Has(src, k) THEN Spread(o, [x \in {k} |-> src[k]]) ELSE o

(***************************************************************************)
(* The document client: GetCommand, PutCommand, DeleteCommand, and the     *)
(* QueryCommand on GSI1.  A query returns the items of one GSI1PK ordered  *)
(* by GSI1SK ascending; the order among equal sort keys is not specified,  *)
(* so the query has a set of possible answers.                             *)
(***************************************************************************)
GetItem(tbl, pk) == IF pk \in DOMAIN tbl THEN tbl[pk] ELSE Null

PutItem(tbl, item) ==
  [pk \in DOMAIN tbl \cup {item.PK} |-> IF pk = item.PK THEN item ELSE tbl[pk]]

DeleteItem(tbl, pk) == [k \in DOMAIN tbl \ {pk} |-> tbl[k]]

QueryGSI1(tbl, gsi1pk) ==
  LET keys == {pk \in DOMAIN tbl : tbl[pk].GSI1PK = gsi1pk}
      n == Cardinality(keys)
  IN {[i \in 1..n |-> tbl[f[i]]] :
        f \in {g \in [1..n -> keys] :
                 /\ \A i, j \in 1..n : i # j => g[i] # g[j]
                 /\ \A i \in 1..(n - 1) :
                      StrLeq(tbl[g[i]].GSI1SK, tbl[g[i + 1]].GSI1SK)}}

\* result.Items.map((item) => item.data)
DataOf(items) == [i \in 1..Len(items) |-> items[i].data]

(***************************************************************************)
(* Reads of the store.                                                     *)
(***************************************************************************)
getTasks(tbl, domain) ==
  {DataOf(r) : r \in QueryGSI1(tbl, buildDomainGSI1PK(domain, "TASK"))}

getTask(tbl, domain, taskId) ==
  LET item == GetItem(tbl, buildTaskPK(domain, taskId))
  IN IF item # Null THEN item.data ELSE Null

(***************************************************************************)
(* The item written for a task: createTask, updateTask and addActivity     *)
(* build the same envelope around the payload.                             *)
(***************************************************************************)
taskItem(domain, taskId, data, createdAt, updatedAt) ==
  [PK |-> buildTaskPK(domain, taskId),
   SK |-> buildMetaSK,
   GSI1PK |-> buildDomainGSI1PK(domain, "TASK"),
   GSI1SK |-> createdAt,
   entityType |-> "TASK",
   domain |-> domain,
   data |-> data,
   createdAt |-> createdAt,
   updatedAt |-> updatedAt]

(***************************************************************************)
(* createTask: the id is task-{Date.now()}-{random}; the random suffix is  *)
(* an input.  The timestamps are a second read of the clock.               *)
(***************************************************************************)
createTask(tbl, domain, taskData, createdBy, ts, suffix) ==
  LET taskId == "task-" \o ToString(ts[1]) \o "-" \o suffix
      nowIso == toISOString(ts[2])
      task == [id |-> taskId,
               title |-> StrOr(taskData, "title", ""),
               description |-> StrOr(taskData, "description", ""),
               status |-> StrOr(taskData, "status", "backlog"),
               activities |-> <<[id |-> taskId \o "-created",
                                 type |-> "created",
                                 text |-> "Task created",
                                 author |-> createdBy,
                                 timestamp |-> nowIso]>>,
               hoursSpent |-> NumOr(taskData, "hoursSpent", 0),
               hoursExpected |-> NumOr(taskData, "hoursExpected", 0),
               assignedTo |-> StrOr(taskData, "assignedTo", ""),
               linkedTasks |-> ArrOr(taskData, "linkedTasks", <<>>),
               domain |-> domain,
               createdAt |-> nowIso,
               updatedAt |-> nowIso,
               createdBy |-> createdBy]
      item == taskItem(domain, taskId, task, nowIso, nowIso)
  IN [table |-> PutItem(tbl, item), status |-> "ok", result |-> task,
      reads |-> 2]

(***************************************************************************)
(* updateTask, in the order of the source: the activities generated for    *)
(* the tracked fields, the merged task, the item.  The timestamps are the  *)
(* first read of the clock; the id of each generated activity is a read of *)
(* its own.                                                                *)
(***************************************************************************)
Opt(cond, x) == IF cond THEN <<x>> ELSE <<>>

OrUnassigned(s) == IF s # "" THEN s ELSE "Unassigned"

\* faulty variant: an activity whenever the patch carries a status
statusActivityAlways(existingTask, taskId, updates, updatedBy, t, nowIso) ==
  Opt(Has(updates, "status") /\ updates.status # "",
      [id |-> taskId \o "-" \o ToString(t) \o "-status",
       type |-> "status_change",
       text |-> "Status changed from " \o existingTask.status
                  \o " to " \o updates.status,
       author |-> updatedBy,
       timestamp |-> nowIso,
       metadata |-> [oldValue |-> existingTask.status,
                     newValue |-> updates.status,
                     fieldName |-> "status"]])

statusActivity(existingTask, taskId, updates, updatedBy, t, nowIso) ==
  Opt(/\ Has(updates, "status")
      /\ updates.status # ""
      /\ updates.status # existingTask.status,
      [id |-> taskId \o "-" \o ToString(t) \o "-status",
       type |-> "status_change",
       text |-> "Status changed from " \o existingTask.status
                  \o " to " \o updates.status,
       author |-> updatedBy,
       timestamp |-> nowIso,
       metadata |-> [oldValue |-> existingTask.status,
                     newValue |-> updates.status,
                     fieldName |-> "status"]])

assignmentActivity(existingTask, taskId, updates, updatedBy, t, nowIso) ==
  Opt(/\ Has(updates, "assignedTo")
      /\ updates.assignedTo # existingTask.assignedTo,
      [id |-> taskId \o "-" \o ToString(t) \o "-assignment",
       type |-> "assignment",
       text |-> "Assigned to " \o OrUnassigned(updates.assignedTo),
       author |-> updatedBy,
       timestamp |-> nowIso,
       metadata |-> [oldValue |-> OrUnassigned(existingTask.assignedTo),
                     newValue |-> OrUnassigned(updates.assignedTo),
                     fieldName |-> "assignedTo"]])

hoursSpentActivity(existingTask, taskId, updates, updatedBy, t, nowIso) ==
  Opt(/\ Has(updates, "hoursSpent")
      /\ updates.hoursSpent # existingTask.hoursSpent,
      [id |-> taskId \o "-" \o ToString(t) \o "-hours-spent",
       type |-> "hours_update",
       text |-> "Hours spent updated from "
                  \o ToString(existingTask.hoursSpent)
                  \o " to " \o ToString(updates.hoursSpent),
       author |-> updatedBy,
       timestamp |-> nowIso,
       metadata |-> [oldValue |-> ToString(existingTask.hoursSpent),
                     newValue |-> ToString(updates.hoursSpent),
                     fieldName |-> "hoursSpent"]])

\* faulty variant: the expected-hours activity labelled as hours spent
hoursExpectedActivityAsSpent(existingTask, taskId, updates, updatedBy, t, nowIso) ==
  Opt(/\ Has(updates, "hoursExpected")
      /\ updates.hoursExpected # existingTask.hoursExpected,
      [id |-> taskId \o "-" \o ToString(t) \o "-hours-expected",
       type |-> "hours_update",
       text |-> "Expected hours updated from "
                  \o ToString(existingTask.hoursExpected)
                  \o " to " \o ToString(updates.hoursExpected),
       author |-> updatedBy,
       timestamp |-> nowIso,
       metadata |-> [oldValue |-> ToString(existingTask.hoursExpected),
                     newValue |-> ToString(updates.hoursExpected),
                     fieldName |-> "hoursSpent"]])

hoursExpectedActivity(existingTask, taskId, updates, updatedBy, t, nowIso) ==
  Opt(/\ Has(updates, "hoursExpected")
      /\ updates.hoursExpected # existingTask.hoursExpected,
      [id |-> taskId \o "-" \o ToString(t) \o "-hours-expected",
       type |-> "hours_update",
       text |-> "Expected hours updated from "
                  \o ToString(existingTask.hoursExpected)
                  \o " to " \o ToString(updates.hoursExpected),
       author |-> updatedBy,
       timestamp |-> nowIso,
       metadata |-> [oldValue |-> ToString(existingTask.hoursExpected),
                     newValue |-> ToString(updates.hoursExpected),
                     fieldName |-> "hoursExpected"]])

\* the reads of the clock updateTask makes at most
UpdateReads == 5

newActivities(existingTask, taskId, updates, updatedBy, ts) ==
  LET nowIso == toISOString(ts[1])
      s == statusActivity(existingTask, taskId, updates, updatedBy,
                          ts[2], nowIso)
      a == assignmentActivity(existingTask, taskId, updates, updatedBy,
                              ts[2 + Len(s)], nowIso)
      h == hoursSpentActivity(existingTask, taskId, updates, updatedBy,
                              ts[2 + Len(s) + Len(a)], nowIso)
      e == hoursExpectedActivity(existingTask, taskId, updates, updatedBy,
                                 ts[2 + Len(s) + Len(a) + Len(h)], nowIso)
  IN s \o a \o h \o e

\* faulty variant: the patch spread after id and domain are pinned
updatedTaskUnpinned(existingTask, updates, taskId, domain, added, nowIso) ==
  Spread(Spread(Spread(existingTask, [id |-> taskId, domain |-> domain]),
                updates),
         [activities |-> existingTask.activities \o added,
          updatedAt |-> nowIso])

\* faulty variant: the patch spread after the activities are set
updatedTaskPatchedLog(existingTask, updates, taskId, domain, added, nowIso) ==
  Spread(Spread(Spread(existingTask,
                       [activities |-> existingTask.activities \o added]),
                updates),
         [id |-> taskId, domain |-> domain, updatedAt |-> nowIso])

\* faulty variant: a patched linkedTasks is added to the stored one
updatedTaskUnion(existingTask, updates, taskId, domain, added, nowIso) ==
  Spread(Spread(existingTask, updates),
         [id |-> taskId,
          domain |-> domain,
          activities |-> existingTask.activities \o added,
          linkedTasks |-> IF Has(updates, "linkedTasks")
                          THEN existingTask.linkedTasks \o updates.linkedTasks
                          ELSE existingTask.linkedTasks,
          updatedAt |-> nowIso])

\* faulty variant: the new activities put before the stored ones
updatedTaskNewFirst(existingTask, updates, taskId, domain, added, nowIso) ==
  Spread(Spread(existingTask, updates),
         [id |-> taskId,
          domain |-> domain,
          activities |-> added \o existingTask.activities,
          updatedAt |-> nowIso])

updatedTask(existingTask, updates, taskId, domain, added, nowIso) ==
  Spread(Spread(existingTask, updates),
         [id |-> taskId,
          domain |-> domain,
          activities |-> existingTask.activities \o added,
          updatedAt |-> nowIso])

\* faulty variant: a missing task is created from the patch
updateTaskUpsert(tbl, domain, taskId, updates, updatedBy, ts) ==
  LET found == getTask(tbl, domain, taskId)
      nowIso == toISOString(ts[1])
      existingTask == IF found # Null THEN found
                      ELSE [activities |-> <<>>, createdAt |-> nowIso]
      added == IF found # Null
               THEN newActivities(found, taskId, updates, updatedBy, ts)
               ELSE <<>>
      data == updatedTask(existingTask, updates, taskId, domain, added, nowIso)
      item == taskItem(domain, taskId, data, existingTask.createdAt, nowIso)
  IN [table |-> PutItem(tbl, item), status |-> "ok", result |-> data,
      reads |-> 1 + Len(added)]

updateTask(tbl, domain, taskId, updates, updatedBy, ts) ==
  LET existingTask == getTask(tbl, domain, taskId)
      nowIso == toISOString(ts[1])
      added == newActivities(existingTask, taskId, updates, updatedBy, ts)
      data == updatedTask(existingTask, updates, taskId, domain, added, nowIso)
      item == taskItem(domain, taskId, data, existingTask.createdAt, nowIso)
  IN IF existingTask = Null
     THEN [table |-> tbl, status |-> "Task not found", result |-> Null,
           reads |-> 0]
     ELSE [table |-> PutItem(tbl, item), status |-> "ok", result |-> data,
           reads |-> 1 + Len(added)]

(***************************************************************************)
(* updateTask of the task-only store (src/unnamed/part_005), which the     *)
(* task handlers of cdk/amplify-stack.ts import: the patch is merged over  *)
(* the stored task, id, domain and updatedAt are pinned, no activity is    *)
(* generated and the activities are not pinned.                            *)
(***************************************************************************)
mergedTask(existingTask, updates, taskId, domain, nowIso) ==
  Spread(Spread(existingTask, updates),
         [id |-> taskId, domain |-> domain, updatedAt |-> nowIso])

updateTaskMerge(tbl, domain, taskId, updates, updatedBy, ts) ==
  LET existingTask == getTask(tbl, domain, taskId)
      nowIso == toISOString(ts[1])
      data == mergedTask(existingTask, updates, taskId, domain, nowIso)
      item == taskItem(domain, taskId, data, existingTask.createdAt, nowIso)
  IN IF existingTask = Null
     THEN [table |-> tbl, status |-> "Task not found", result |-> Null,
           reads |-> 0]
     ELSE [table |-> PutItem(tbl, item), status |-> "ok", result |-> data,
           reads |-> 1]

\* faulty variant: a delete that insists on the item being there
deleteTaskStrict(tbl, domain, taskId) ==
  IF getTask(tbl, domain, taskId) = Null
  THEN [table |-> tbl, status |-> "Task not found", result |-> Null,
        reads |-> 0]
  ELSE [table |-> DeleteItem(tbl, buildTaskPK(domain, taskId)),
        status |-> "ok",
        result |-> Null,
        reads |-> 0]

\* faulty variant: a delete that also removes the id from the linkedTasks of
\* the other tasks of the domain
deleteTaskCascade(tbl, domain, taskId) ==
  LET rest == DeleteItem(tbl, buildTaskPK(domain, taskId))
      Unlinked(item) ==
        [item EXCEPT !.data.linkedTasks =
                       SelectSeq(@, LAMBDA id : id # taskId)]
  IN [table |-> [pk \in DOMAIN rest |->
                   IF rest[pk].entityType = "TASK" /\ rest[pk].domain = domain
                   THEN Unlinked(rest[pk])
                   ELSE rest[pk]],
      status |-> "ok",
      result |-> Null,
      reads |-> 0]

\* faulty variant: a delete that leaves a tombstone in place of the item
deleteTaskTombstone(tbl, domain, taskId) ==
  LET pk == buildTaskPK(domain, taskId)
  IN [table |-> IF pk \in DOMAIN tbl
                THEN [tbl EXCEPT ![pk].data.status = "deleted"]
                ELSE tbl,
      status |-> "ok",
      result |-> Null,
      reads |-> 0]

deleteTask(tbl, domain, taskId) ==
  [table |-> DeleteItem(tbl, buildTaskPK(domain, taskId)),
   status |-> "ok",
   result |-> Null,
   reads |-> 0]

(***************************************************************************)
(* addActivity.                                                            *)
(***************************************************************************)
\* three reads of the clock: the id, the timestamp, updatedAt
newActivity(activity, taskId, ts) ==
  Spread(activity,
         [id |-> taskId \o "-" \o ToString(ts[1]),
          timestamp |-> toISOString(ts[2])])

\* faulty variant: the new activity replaces the log
appendedTaskOnly(task, activity, taskId, ts) ==
  Spread(task,
         [activities |-> <<newActivity(activity, taskId, ts)>>,
          updatedAt |-> toISOString(ts[3])])

\* faulty variant: the new activity put in front of the log
appendedTaskFront(task, activity, taskId, ts) ==
  Spread(task,
         [activities |-> <<newActivity(activity, taskId, ts)>> \o task.activities,
          updatedAt |-> toISOString(ts[3])])

\* the updatedTask of addActivity
appendedTask(task, activity, taskId, ts) ==
  Spread(task,
         [activities |-> task.activities \o <<newActivity(activity, taskId, ts)>>,
          updatedAt |-> toISOString(ts[3])])

addActivity(tbl, domain, taskId, activity, ts) ==
  LET task == getTask(tbl, domain, taskId)
      data == appendedTask(task, activity, taskId, ts)
      item == taskItem(domain, taskId, data, task.createdAt, data.updatedAt)
  IN IF task = Null
     THEN [table |-> tbl, status |-> "Task not found", result |-> Null,
           reads |-> 0]
     ELSE [table |-> PutItem(tbl, item), status |-> "ok", result |-> data,
           reads |-> 3]

(***************************************************************************)
(* Tickets.                                                                *)
(***************************************************************************)
normalizeTicket(ticket) ==
  Spread(ticket,
         [type |-> IF Has(ticket, "type") THEN ticket.type ELSE "feature"])

getTickets(tbl, domain) ==
  {[i \in 1..Len(r) |-> normalizeTicket(r[i].data)] :
     r \in QueryGSI1(tbl, buildDomainGSI1PK(domain, "TICKET"))}

getTicket(tbl, domain, ticketId) ==
  LET item == GetItem(tbl, buildTicketPK(domain, ticketId))
  IN IF item = Null THEN Null ELSE normalizeTicket(item.data)

ticketItem(domain, ticketId, data, createdAt, updatedAt) ==
  [PK |-> buildTicketPK(domain, ticketId),
   SK |-> buildMetaSK,
   GSI1PK |-> buildDomainGSI1PK(domain, "TICKET"),
   GSI1SK |-> createdAt,
   entityType |-> "TICKET",
   domain |-> domain,
   data |-> data,
   createdAt |-> createdAt,
   updatedAt |-> updatedAt]

createTicket(tbl, domain, ticketData, createdBy, ts, suffix) ==
  LET ticketId == "ticket-" \o ToString(ts[1]) \o "-" \o suffix
      nowIso == toISOString(ts[2])
      ticket == WithOpt([id |-> ticketId,
                         title |-> StrOr(ticketData, "title", ""),
                         description |-> StrOr(ticketData, "description", ""),
                         status |-> StrOr(ticketData, "status", "new"),
                         type |-> StrOr(ticketData, "type", "feature"),
                         domain |-> domain,
                         createdAt |-> nowIso,
                         updatedAt |-> nowIso,
                         createdBy |-> createdBy],
                        "assignedTo", ticketData)
      item == ticketItem(domain, ticketId, ticket, nowIso, nowIso)
  IN [table |-> PutItem(tbl, item), status |-> "ok", result |-> ticket,
      reads |-> 2]

updatedTicket(existingTicket, updates, ticketId, domain, nowIso) ==
  Spread(Spread(existingTicket, updates),
         [id |-> ticketId,
          domain |-> domain,
          type |-> IF Has(updates, "type") THEN updates.type
                   ELSE IF Has(existingTicket, "type") THEN existingTicket.type
                   ELSE "feature",
          updatedAt |-> nowIso])

updateTicket(tbl, domain, ticketId, updates, updatedBy, ts) ==
  LET existingTicket == getTicket(tbl, domain, ticketId)
      nowIso == toISOString(ts[1])
      data == updatedTicket(existingTicket, updates, ticketId, domain, nowIso)
      item == ticketItem(domain, ticketId, data, existingTicket.createdAt, nowIso)
  IN IF existingTicket = Null
     THEN [table |-> tbl, status |-> "Ticket not found", result |-> Null,
           reads |-> 0]
     ELSE [table |-> PutItem(tbl, item), status |-> "ok", result |-> data,
           reads |-> 1]

deleteTicket(tbl, domain, ticketId) ==
  [table |-> DeleteItem(tbl, buildTicketPK(domain, ticketId)),
   status |-> "ok",
   result |-> Null,
   reads |-> 0]

(***************************************************************************)
(* User profiles.                                                          *)
(***************************************************************************)
getUsers(tbl, domain) ==
  {DataOf(r) : r \in QueryGSI1(tbl, buildDomainGSI1PK(domain, "USER"))}

getUser(tbl, domain, userId) ==
  LET item == GetItem(tbl, buildUserPK(domain, userId))
  IN IF item # Null THEN item.data ELSE Null

\* faulty variant: the emails compared as they are
FindByEmailExact(users, email) ==
  LET hits == {i \in 1..Len(users) : users[i].email = email}
  IN IF hits = {} THEN Null
     ELSE users[CHOOSE i \in hits : \A j \in hits : i <= j]

\* users.find(...) || null on one answer of the query
FindByEmail(users, email) ==
  LET hits == {i \in 1..Len(users) :
                 toLowerCase(users[i].email) = toLowerCase(email)}
  IN IF hits = {} THEN Null
     ELSE users[CHOOSE i \in hits : \A j \in hits : i <= j]

getUserByEmail(tbl, domain, email) ==
  {FindByEmail(users, email) : users \in getUsers(tbl, domain)}

userItem(domain, userId, data, createdAt, updatedAt) ==
  [PK |-> buildUserPK(domain, userId),
   SK |-> buildMetaSK,
   GSI1PK |-> buildDomainGSI1PK(domain, "USER"),
   GSI1SK |-> createdAt,
   entityType |-> "USER",
   domain |-> domain,
   data |-> data,
   createdAt |-> createdAt,
   updatedAt |-> updatedAt]

createUser(tbl, domain, userData, existingUser, ts, suffix) ==
  LET userId == "user-" \o ToString(ts[1]) \o "-" \o suffix
      nowIso == toISOString(ts[2])
      user == [userId |-> userId,
               email |-> toLowerCase(userData.email),
               name |-> userData.name,
               domain |-> domain,
               role |-> userData.role,
               createdAt |-> nowIso,
               updatedAt |-> nowIso]
      item == userItem(domain, userId, user, nowIso, nowIso)
  IN IF existingUser # Null
     THEN [table |-> tbl,
           status |-> "User with this email already exists",
           result |-> Null,
           reads |-> 0]
     ELSE [table |-> PutItem(tbl, item), status |-> "ok", result |-> user,
           reads |-> 2]

updatedUser(existingUser, updates, userId, domain, nowIso) ==
  Spread(Spread(existingUser, updates),
         [userId |-> userId,
          email |-> existingUser.email,
          domain |-> domain,
          updatedAt |-> nowIso])

updateUser(tbl, domain, userId, updates, ts) ==
  LET existingUser == getUser(tbl, domain, userId)
      nowIso == toISOString(ts[1])
      data == updatedUser(existingUser, updates, userId, domain, nowIso)
      item == userItem(domain, userId, data, existingUser.createdAt, nowIso)
  IN IF existingUser = Null
     THEN [table |-> tbl, status |-> "User not found", result |-> Null,
           reads |-> 0]
     ELSE [table |-> PutItem(tbl, item), status |-> "ok", result |-> data,
           reads |-> 1]

deleteUser(tbl, domain, userId) ==
  [table |-> DeleteItem(tbl, buildUserPK(domain, userId)),
   status |-> "ok",
   result |-> Null,
   reads |-> 0]

(***************************************************************************)
(* Request handlers (handlers/tasks.ts).  A handler answers with a status  *)
(* code and a body.  The outcome of a handler served in one piece is the   *)
(* table it leaves, the reads of the clock it made and its response.  A    *)
(* store call that throws lands in the handler's catch block.              *)
(***************************************************************************)
createResponse(statusCode, body) == [statusCode |-> statusCode, body |-> body]

Outcome(tbl, reads, response) ==
  [table |-> tbl, reads |-> reads,
   statusCode |-> response.statusCode, body |-> response.body]

\* getUserFromEvent on the claims of the authorizer; the claim custom:domain
\* is the field customDomain
getUserFromEvent(claims) ==
  LET email == StrOr(claims, "email", "unknown@example.com")
      parts == split(Chars(email), "@")
      label == IF Len(parts) >= 2 THEN Join(split(parts[2], ".")[1]) ELSE ""
  IN [userId |-> StrOr(claims, "sub", "unknown-user"),
      email |-> email,
      domain |-> IF StrOr(claims, "customDomain", "") # ""
                 THEN claims.customDomain
                 ELSE IF label # "" THEN label ELSE "default"]

createTaskHandler(tbl, domain, email, body, ts, suffix) ==
  IF ~Has(body, "title") \/ body.title = ""
  THEN Outcome(tbl, 0, createResponse(400, [error |-> "Title is required"]))
  ELSE LET out == createTask(tbl, domain, body, email, ts, suffix)
       IN Outcome(out.table, out.reads,
                  createResponse(201, [task |-> out.result]))

\* The answer of a handler that returns before it sends a command, Null
\* when the request gets as far as the store call.  A request without a
\* body (event.body null or empty) is the body Null.
createUserGuard(domain, body) ==
  IF body = Null
  THEN createResponse(400, [error |-> "Request body is required"])
  ELSE IF \/ ~Has(body, "email") \/ body.email = <<>>
          \/ ~Has(body, "name") \/ body.name = ""
  THEN createResponse(400, [error |-> "Email and name are required"])
  ELSE IF /\ extractDomain(body.email) #
               extractDomain(Chars(domain \o "@" \o domain))
          /\ ~includesString(body.email, Chars("@" \o domain))
  THEN createResponse(400,
         [error |->
            "User email must be from the same domain as your workspace"])
  ELSE Null

\* the user data the handler passes to createUser
createUserData(body) ==
  [email |-> body.email, name |-> body.name,
   role |-> StrOr(body, "role", "member")]

createUserHandler(tbl, domain, body, existingUser, ts, suffix) ==
  IF createUserGuard(domain, body) # Null
  THEN Outcome(tbl, 0, createUserGuard(domain, body))
  ELSE LET out == createUser(tbl, domain, createUserData(body),
                             existingUser, ts, suffix)
       IN IF out.status = "ok"
          THEN Outcome(out.table, out.reads,
                       createResponse(201, [user |-> out.result]))
          ELSE Outcome(tbl, 0, createResponse(500, [error |-> out.status]))

updateTaskHandler(tbl, domain, email, taskId, body, ts) ==
  IF taskId = ""
  THEN Outcome(tbl, 0, createResponse(400, [error |-> "Task ID is required"]))
  ELSE LET out == updateTask(tbl, domain, taskId, body, email, ts)
       IN IF out.status = "ok"
          THEN Outcome(out.table, out.reads,
                       createResponse(200, [task |-> out.result]))
          ELSE Outcome(tbl, 0,
                       createResponse(500, [error |-> "Failed to update task"]))

\* updateTaskHandler of cdk/amplify-stack.ts, on the task-only store
updateTaskHandlerMerge(tbl, domain, email, taskId, body, ts) ==
  IF taskId = ""
  THEN Outcome(tbl, 0, createResponse(400, [error |-> "Task ID is required"]))
  ELSE LET out == updateTaskMerge(tbl, domain, taskId, body, email, ts)
       IN IF out.status = "ok"
          THEN Outcome(out.table, out.reads,
                       createResponse(200, [task |-> out.result]))
          ELSE Outcome(tbl, 0,
                       createResponse(500, [error |-> "Failed to update task"]))

addCommentGuard(taskId, body) ==
  IF taskId = ""
  THEN createResponse(400, [error |-> "Task ID is required"])
  ELSE IF ~Has(body, "comment") \/ body.comment = ""
  THEN createResponse(400, [error |-> "Comment is required"])
  ELSE Null

\* the activity the handler passes to addActivity
commentActivity(body, email) ==
  [type |-> "comment", text |-> body.comment, author |-> email]

addCommentHandler(tbl, domain, email, taskId, body, ts) ==
  IF addCommentGuard(taskId, body) # Null
  THEN Outcome(tbl, 0, addCommentGuard(taskId, body))
  ELSE LET out == addActivity(tbl, domain, taskId,
                              commentActivity(body, email), ts)
       IN IF out.status = "ok"
          THEN Outcome(out.table, out.reads,
                       createResponse(200, [task |-> out.result]))
          ELSE Outcome(tbl, 0,
                       createResponse(500, [error |-> "Failed to add comment"]))

\* A value of a parsed JSON body whose JavaScript type matters: typeof, and
\* the value as its JSON text.
JsonString(s) == [typeof |-> "string", value |-> s]

\* body.type.toLowerCase()
normalizedType(type) == Join(toLowerCase(Chars(type)))

VALID_TICKET_TYPES == {"bug", "feature"}

\* faulty variant: every string passes
isValidTicketTypeLoose(value) == TRUE

\* called on a string; a value that is not a string is rejected before
isValidTicketType(value) == value \in VALID_TICKET_TYPES

createTicketHandler(tbl, domain, email, body, ts, suffix) ==
  IF ~Has(body, "title") \/ body.title = ""
  THEN Outcome(tbl, 0, createResponse(400, [error |-> "Title is required"]))
  ELSE IF \/ ~Has(body, "type")
          \/ body.type.typeof # "string"
          \/ ~isValidTicketType(normalizedType(body.type.value))
  THEN Outcome(tbl, 0,
         createResponse(400,
           [error |-> "Ticket type must be either bug or feature"]))
  ELSE LET payload == Spread(body, [type |-> normalizedType(body.type.value)])
           out == createTicket(tbl, domain, payload, email, ts, suffix)
       IN Outcome(out.table, out.reads,
                  createResponse(201, [ticket |-> out.result]))

updateTicketGuard(ticketId, body) ==
  IF ticketId = ""
  THEN createResponse(400, [error |-> "Ticket ID is required"])
  ELSE IF /\ Has(body, "type")
          /\ \/ body.type.typeof # "string"
             \/ ~isValidTicketType(normalizedType(body.type.value))
  THEN createResponse(400,
         [error |-> "Ticket type must be either bug or feature"])
  ELSE Null

\* the updates the handler passes to updateTicket
ticketUpdates(body) ==
  IF Has(body, "type")
  THEN Spread(body, [type |-> normalizedType(body.type.value)])
  ELSE body

updateTicketHandler(tbl, domain, email, ticketId, body, ts) ==
  IF updateTicketGuard(ticketId, body) # Null
  THEN Outcome(tbl, 0, updateTicketGuard(ticketId, body))
  ELSE LET out == updateTicket(tbl, domain, ticketId, ticketUpdates(body),
                               email, ts)
       IN IF out.status = "ok"
          THEN Outcome(out.table, out.reads,
                       createResponse(200, [ticket |-> out.result]))
          ELSE Outcome(tbl, 0,
                 createResponse(500, [error |-> "Failed to update ticket"]))

updateUserGuard(userId, body) ==
  IF userId = ""
  THEN createResponse(400, [error |-> "User ID is required"])
  ELSE IF body = Null
  THEN createResponse(400, [error |-> "Request body is required"])
  ELSE Null

updateUserHandler(tbl, domain, userId, body, ts) ==
  IF updateUserGuard(userId, body) # Null
  THEN Outcome(tbl, 0, updateUserGuard(userId, body))
  ELSE LET out == updateUser(tbl, domain, userId, body, ts)
       IN IF out.status = "ok"
          THEN Outcome(out.table, out.reads,
                       createResponse(200, [user |-> out.result]))
          ELSE Outcome(tbl, 0, createResponse(500, [error |-> out.status]))

\* faulty variant: only the first element is looked at
includesFirst(arr, x) == arr # <<>> /\ arr[1] = x

\* task.linkedTasks.includes(id)
includes(arr, x) == \E i \in 1..Len(arr) : arr[i] = x

\* linkedTask?.title || 'Unknown task'
linkedTaskTitle(linkedTask) ==
  IF linkedTask # Null /\ linkedTask.title # ""
  THEN linkedTask.title
  ELSE "Unknown task"

\* faulty variant: the link patch without the new id
linkPatchSame(task, linkedTaskId) == [linkedTasks |-> task.linkedTasks]

\* the patch and the activity of linkTaskHandler
linkPatch(task, linkedTaskId) ==
  [linkedTasks |-> Append(task.linkedTasks, linkedTaskId)]

linkNote(linkedTask, email) ==
  [type |-> "assignment",
   text |-> "Linked to task: " \o linkedTaskTitle(linkedTask),
   author |-> email]

\* faulty variant: the unlink patch keeps the linked ids
unlinkPatchKeep(task, linkedTaskId) == [linkedTasks |-> task.linkedTasks]

\* the patch and the activity of unlinkTaskHandler
unlinkPatch(task, linkedTaskId) ==
  [linkedTasks |-> SelectSeq(task.linkedTasks, LAMBDA id : id # linkedTaskId)]

unlinkNote(linkedTask, email) ==
  [type |-> "assignment",
   text |-> "Unlinked from task: " \o linkedTaskTitle(linkedTask),
   author |-> email]

\* the reads of the clock that remain after the first k
Later(ts, k) == [i \in 1..(Len(ts) - k) |-> ts[i + k]]

\* the reads of the clock a link or an unlink makes: one by its updateTask,
\* whose patch names no tracked field, three by its addActivity
LinkReads == 4

\* updateTask, then addActivity, then the task as stored; failed is the
\* error text of the handler's catch block
linkSteps(tbl, domain, email, taskId, patch, note, failed, ts) ==
  LET o1 == updateTask(tbl, domain, taskId, patch, email, ts)
      o2 == addActivity(o1.table, domain, taskId, note, Later(ts, o1.reads))
  IN IF o1.status # "ok"
     THEN Outcome(tbl, 0, createResponse(500, [error |-> failed]))
     ELSE IF o2.status # "ok"
     THEN Outcome(o1.table, o1.reads,
                  createResponse(500, [error |-> failed]))
     ELSE Outcome(o2.table, o1.reads + o2.reads,
                  createResponse(200,
                                 [task |-> getTask(o2.table, domain, taskId)]))

linkTaskHandler(tbl, domain, email, taskId, linkedTaskId, ts) ==
  LET task == getTask(tbl, domain, taskId)
      linkedTask == getTask(tbl, domain, linkedTaskId)
  IN IF taskId = ""
     THEN Outcome(tbl, 0,
                  createResponse(400, [error |-> "Task ID is required"]))
     ELSE IF linkedTaskId = ""
     THEN Outcome(tbl, 0,
                  createResponse(400, [error |-> "Linked task ID is required"]))
     ELSE IF task = Null
     THEN Outcome(tbl, 0, createResponse(404, [error |-> "Task not found"]))
     ELSE IF includes(task.linkedTasks, linkedTaskId)
     THEN Outcome(tbl, 0,
                  createResponse(400, [error |-> "Task already linked"]))
     ELSE linkSteps(tbl, domain, email, taskId, linkPatch(task, linkedTaskId),
                    linkNote(linkedTask, email), "Failed to link task", ts)

unlinkTaskHandler(tbl, domain, email, taskId, linkedTaskId, ts) ==
  LET task == getTask(tbl, domain, taskId)
      linkedTask == getTask(tbl, domain, linkedTaskId)
  IN IF taskId = "" \/ linkedTaskId = ""
     THEN Outcome(tbl, 0,
                  createResponse(400, [error |-> "Task IDs are required"]))
     ELSE IF task = Null
     THEN Outcome(tbl, 0, createResponse(404, [error |-> "Task not found"]))
     ELSE linkSteps(tbl, domain, email, taskId,
                    unlinkPatch(task, linkedTaskId),
                    unlinkNote(linkedTask, email), "Failed to unlink task",
                    ts)

(***************************************************************************)
(* Requests.  The domain of a request is the custom:domain claim of its    *)
(* caller and the actor the caller's email; payloads and patches are what  *)
(* a caller may send, fields of the entity type that the operation does    *)
(* not expect included.                                                    *)
(***************************************************************************)
Actors == {"ann@acme.com"}

TaskIds == {"task-" \o ToString(c) \o "-" \o x : c \in Clock, x \in Suffixes}
TicketIds == {"ticket-" \o ToString(c) \o "-" \o x : c \in Clock, x \in Suffixes}
UserIds == {"user-" \o ToString(c) \o "-" \o x : c \in Clock, x \in Suffixes}

TaskPayloads ==
  { [title |-> "A"],
    [title |-> "B", status |-> "in-progress", hoursExpected |-> 2,
     assignedTo |-> "ann", dueDate |-> "2026-11-30"] }

\* bodies of POST /tasks
TaskBodies == TaskPayloads \cup {[description |-> "d"]}

TaskPatches ==
  { [status |-> "in-progress"],
    [status |-> "backlog", assignedTo |-> "ann"],
    [hoursSpent |-> 2, hoursExpected |-> 0],
    [assignedTo |-> ""],
    [status |-> ""],
    [id |-> "task-9-zzz", domain |-> "globex", activities |-> <<>>,
     title |-> "C", linkedTasks |-> <<"task-9-zzz">>],
    [createdAt |-> toISOString(0)] }

Comments ==
  { [type |-> "comment", text |-> "hi", author |-> a] : a \in Actors }

\* bodies of POST /tasks/{id}/comments
CommentBodies == {[comment |-> "hi"], [text |-> "hi"]}

TicketPayloads ==
  { [title |-> "T", type |-> "bug"],
    [title |-> "U", assignedTo |-> "ann"] }

TicketPatches ==
  { [status |-> "done"],
    [id |-> "ticket-9-zzz", domain |-> "globex", type |-> "bug"],
    [createdAt |-> toISOString(0)] }

\* the type values of a ticket request: right, wrongly cased, unknown, not a
\* string
TicketTypeValues ==
  { JsonString("bug"), JsonString("BUG"), JsonString("Feature"),
    JsonString("task"), JsonString(""),
    [typeof |-> "number", value |-> "5"],
    [typeof |-> "object", value |-> "null"] }

\* bodies of POST /tickets and PUT /tickets/{id}
TicketBodies ==
  {[title |-> "T", type |-> v] : v \in TicketTypeValues}
    \cup {[type |-> v] : v \in TicketTypeValues}
    \cup {[title |-> "U", assignedTo |-> "ann"], [status |-> "done"],
          [id |-> "ticket-9-zzz", domain |-> "globex",
           type |-> JsonString("bug")],
          [createdAt |-> toISOString(0)]}

\* profiles of the two workspaces; two emails differ in case only
UserPayloads ==
  { [email |-> Chars("a@acme"), name |-> "A", role |-> "member"],
    [email |-> Chars("A@ACME"), name |-> "B", role |-> "admin"],
    [email |-> Chars("b@acme"), name |-> "C", role |-> "member"],
    [email |-> Chars("b@globex"), name |-> "C", role |-> "member"] }

UserPatches ==
  { [name |-> "Z"],
    [userId |-> "user-9-zzz", domain |-> "globex",
     email |-> Chars("b@acme"), role |-> "admin"],
    [createdAt |-> toISOString(0)] }

(***************************************************************************)
(* State.  table is the DynamoDB table, now the clock Date.now() reads,    *)
(* last the latest command that changed the table, with the request it     *)
(* belongs to.  live is a history variable: the (type, domain, id) of the  *)
(* entities created and not deleted since.  calls counts the requests that *)
(* have sent a command.                                                    *)
(*                                                                         *)
(* A handler invocation awaits every command it sends to the table, so the *)
(* commands of other invocations can be served, and the clock can move,    *)
(* while it waits.  inflight holds, for each of the invocations that can   *)
(* run at the same time, where it stands:                                  *)
(*   idle     no request                                                   *)
(*   lookup1  linkTaskHandler / unlinkTaskHandler: the GetCommand of the   *)
(*            task is sent                                                 *)
(*   lookup2  the GetCommand of the linked task is sent                    *)
(*   read     the GetCommand (for createUser the QueryCommand) of the next *)
(*            store call is sent                                           *)
(*   got      the store has served it; seen is its answer, which the       *)
(*            store call has not yet looked at                             *)
(*   put      the store call has read the clock and built the item; its    *)
(*            PutCommand is sent                                           *)
(*   final    linkTaskHandler / unlinkTaskHandler: the GetCommand of the   *)
(*            task the handler answers with is sent                        *)
(*   delete   the DeleteCommand is sent                                    *)
(*   done     the handler has answered, with statusCode                    *)
(* calls are the store calls the invocation has still to make, the one it  *)
(* is in first until its item is built.  A request that a handler answers  *)
(* before it sends a command leaves the state as it is.                    *)
(***************************************************************************)
Procs == {"p1", "p2"}

Idle == [pc |-> "idle"]

Free(p) == inflight[p].pc \in {"idle", "done"}

\* the response of an invocation that has returned
Done(inv, statusCode) ==
  [pc |-> "done", op |-> inv.op, domain |-> inv.domain, id |-> inv.id,
   arg |-> inv.arg, statusCode |-> statusCode]

\* an invocation that has sent the first command of its next store call
Asks(inv, todo) ==
  [pc |-> "read", op |-> inv.op, domain |-> inv.domain, id |-> inv.id,
   arg |-> inv.arg, by |-> inv.by, calls |-> todo]

\* an invocation whose read has been served
Got(inv, seen) ==
  [pc |-> "got", op |-> inv.op, domain |-> inv.domain, id |-> inv.id,
   arg |-> inv.arg, by |-> inv.by, calls |-> inv.calls, seen |-> seen]

\* an invocation whose store call has built the item and sent its put
Sent(inv, item, seen) ==
  [pc |-> "put", op |-> inv.op, domain |-> inv.domain, id |-> inv.id,
   arg |-> inv.arg, by |-> inv.by, calls |-> inv.calls, seen |-> seen,
   item |-> item]

\* an invocation at a command that is not part of a store call with a put
At(inv, pc) ==
  [pc |-> pc, op |-> inv.op, domain |-> inv.domain, id |-> inv.id,
   arg |-> inv.arg, by |-> inv.by, calls |-> <<>>]

Init ==
  /\ table = <<>>
  /\ now = 1
  /\ last = [op |-> "init"]
  /\ live = {}
  /\ calls = 0
  /\ inflight = [p \in Procs |-> Idle]

\* one invocation at a time
InitSeq ==
  /\ table = <<>>
  /\ now = 1
  /\ last = [op |-> "init"]
  /\ live = {}
  /\ calls = 0
  /\ inflight = [p \in {"p1"} |-> Idle]

Tick ==
  /\ now < MaxClock
  /\ now' = now + 1
  /\ UNCHANGED <<table, last, live, calls, inflight>>

\* A request arrives, passes the guards of its handler and the handler
\* sends its first command: inv is where the invocation then stands.
Arrives(p, inv) ==
  /\ Free(p)
  /\ calls < MaxCalls
  /\ calls' = calls + 1
  /\ inflight' = [inflight EXCEPT ![p] = inv]
  /\ UNCHANGED <<table, now, last, live>>

\* createTask and createTicket read the clock and build the item before
\* their first command, the PutCommand
Creates(p, inv, out, item, ts) ==
  /\ Free(p)
  /\ calls < MaxCalls
  /\ out.statusCode = 201
  /\ calls' = calls + 1
  /\ inflight' = [inflight EXCEPT ![p] = Sent(inv, item, Null)]
  /\ now' = ClockAfter(ts, out.reads)
  /\ UNCHANGED <<table, last, live>>

BeginCreateTask ==
  \E p \in DOMAIN inflight, d \in Domains, body \in TaskBodies,
     by \in Actors, x \in Suffixes, ts \in ClockReads(2) :
    LET out == createTaskHandler(table, d, by, body, ts, x)
        id == IF out.statusCode = 201 THEN out.body.task.id ELSE ""
    IN Creates(p, [op |-> "createTask", domain |-> d, id |-> id,
                   arg |-> body, by |-> by, calls |-> <<>>],
               out, GetItem(out.table, buildTaskPK(d, id)), ts)

BeginUpdateTask ==
  \E p \in DOMAIN inflight, d \in Domains, id \in TaskIds, u \in TaskPatches,
     by \in Actors :
    Arrives(p, Asks([op |-> "updateTask", domain |-> d, id |-> id,
                     arg |-> u, by |-> by],
                    <<[call |-> "updateTask", arg |-> u]>>))

\* PUT /tasks/{id} served by the handlers of cdk/amplify-stack.ts
BeginUpdateTaskMerge ==
  \E p \in DOMAIN inflight, d \in Domains, id \in TaskIds, u \in TaskPatches,
     by \in Actors :
    Arrives(p, Asks([op |-> "updateTaskMerge", domain |-> d, id |-> id,
                     arg |-> u, by |-> by],
                    <<[call |-> "updateTaskMerge", arg |-> u]>>))

BeginAddComment ==
  \E p \in DOMAIN inflight, d \in Domains, id \in TaskIds,
     body \in CommentBodies, by \in Actors :
    /\ addCommentGuard(id, body) = Null
    /\ Arrives(p, Asks([op |-> "addActivity", domain |-> d, id |-> id,
                        arg |-> body, by |-> by],
                       <<[call |-> "addActivity",
                          arg |-> commentActivity(body, by)]>>))

BeginCreateTicket ==
  \E p \in DOMAIN inflight, d \in Domains, body \in TicketBodies,
     by \in Actors, x \in Suffixes, ts \in ClockReads(2) :
    LET out == createTicketHandler(table, d, by, body, ts, x)
        id == IF out.statusCode = 201 THEN out.body.ticket.id ELSE ""
    IN Creates(p, [op |-> "createTicket", domain |-> d, id |-> id,
                   arg |-> body, by |-> by, calls |-> <<>>],
               out, GetItem(out.table, buildTicketPK(d, id)), ts)

\* the id of the profile is built after the query has been answered
BeginCreateUser ==
  \E p \in DOMAIN inflight, d \in Domains, body \in UserPayloads :
    /\ createUserGuard(d, body) = Null
    /\ Arrives(p, Asks([op |-> "createUser", domain |-> d, id |-> "",
                        arg |-> body, by |-> ""],
                       <<[call |-> "createUser",
                          arg |-> createUserData(body)]>>))

BeginUpdateUser ==
  \E p \in DOMAIN inflight, d \in Domains, id \in UserIds,
     body \in UserPatches \cup {Null} :
    /\ updateUserGuard(id, body) = Null
    /\ Arrives(p, Asks([op |-> "updateUser", domain |-> d, id |-> id,
                        arg |-> body, by |-> ""],
                       <<[call |-> "updateUser", arg |-> body]>>))

(***************************************************************************)
(* The ticket handlers.  The table may hold a ticket written before the    *)
(* type field existed: its payload has no type.                            *)
(***************************************************************************)
LegacyTicketId == "ticket-0-k3x"

LegacyTicket ==
  ticketItem("acme", LegacyTicketId,
             [id |-> LegacyTicketId, title |-> "L", description |-> "",
              status |-> "new", domain |-> "acme",
              createdAt |-> toISOString(0), updatedAt |-> toISOString(0),
              createdBy |-> "ann@acme.com"],
             toISOString(0), toISOString(0))

BeginUpdateTicket ==
  \E p \in DOMAIN inflight, d \in Domains,
     id \in TicketIds \cup {LegacyTicketId}, body \in TicketBodies,
     by \in Actors :
    /\ updateTicketGuard(id, body) = Null
    /\ Arrives(p, Asks([op |-> "updateTicket", domain |-> d, id |-> id,
                        arg |-> body, by |-> by],
                       <<[call |-> "updateTicket",
                          arg |-> ticketUpdates(body)]>>))

(***************************************************************************)
(* The delete handlers: one DeleteCommand.  Deleting a key that is not     *)
(* there changes nothing.                                                  *)
(***************************************************************************)
BeginDeleteTask ==
  \E p \in DOMAIN inflight, d \in Domains, id \in TaskIds :
    Arrives(p, At([op |-> "deleteTask", domain |-> d, id |-> id,
                   arg |-> <<>>, by |-> ""], "delete"))

BeginDeleteTicket ==
  \E p \in DOMAIN inflight, d \in Domains, id \in TicketIds :
    Arrives(p, At([op |-> "deleteTicket", domain |-> d, id |-> id,
                   arg |-> <<>>, by |-> ""], "delete"))

BeginDeleteUser ==
  \E p \in DOMAIN inflight, d \in Domains, id \in UserIds :
    Arrives(p, At([op |-> "deleteUser", domain |-> d, id |-> id,
                   arg |-> <<>>, by |-> ""], "delete"))

\* the entity type a delete handler removes
deletedType(inv) ==
  CASE inv.op = "deleteTask" -> "TASK"
    [] inv.op = "deleteTicket" -> "TICKET"
    [] inv.op = "deleteUser" -> "USER"

\* the store function of a delete handler
deleteCall(tbl, inv) ==
  CASE inv.op = "deleteTask" -> deleteTask(tbl, inv.domain, inv.id)
    [] inv.op = "deleteTicket" -> deleteTicket(tbl, inv.domain, inv.id)
    [] inv.op = "deleteUser" -> deleteUser(tbl, inv.domain, inv.id)

\* the store serves the DeleteCommand and the handler answers
DeleteStep ==
  \E p \in DOMAIN inflight :
    LET inv == inflight[p]
    IN /\ inv.pc = "delete"
       /\ table' = deleteCall(table, inv).table
       /\ last' = [op |-> inv.op, domain |-> inv.domain, id |-> inv.id,
                   arg |-> inv.arg]
       /\ live' = live \ {<<deletedType(inv), inv.domain, inv.id>>}
       /\ inflight' = [inflight EXCEPT ![p] = Done(inv, 200)]
       /\ UNCHANGED <<now, calls>>

(***************************************************************************)
(* linkTaskHandler and unlinkTaskHandler: the lookup of the task, the      *)
(* lookup of the linked task, updateTask with the patch computed from the  *)
(* first lookup, addActivity with the note computed from the second, the   *)
(* read of the task the handler answers with.  What a handler does with    *)
(* the answer of a lookup reads neither the table nor the clock: it is     *)
(* one step with the store serving the lookup.                             *)
(***************************************************************************)
BeginLink ==
  \E p \in DOMAIN inflight, d \in Domains, id \in TaskIds, other \in TaskIds,
     by \in Actors :
    Arrives(p, At([op |-> "linkTask", domain |-> d, id |-> id,
                   arg |-> other, by |-> by], "lookup1"))

BeginUnlink ==
  \E p \in DOMAIN inflight, d \in Domains, id \in TaskIds, other \in TaskIds,
     by \in Actors :
    Arrives(p, At([op |-> "unlinkTask", domain |-> d, id |-> id,
                   arg |-> other, by |-> by], "lookup1"))

\* the handler after the answer of its first lookup
afterLookup1(inv, task) ==
  IF task = Null
  THEN Done(inv, 404)
  ELSE IF inv.op = "linkTask" /\ includes(task.linkedTasks, inv.arg)
  THEN Done(inv, 400)
  ELSE [pc |-> "lookup2", op |-> inv.op, domain |-> inv.domain,
        id |-> inv.id, arg |-> inv.arg, by |-> inv.by, calls |-> <<>>,
        patch |-> IF inv.op = "linkTask"
                  THEN linkPatch(task, inv.arg)
                  ELSE unlinkPatch(task, inv.arg)]

\* the first lookup
Lookup1Step ==
  \E p \in DOMAIN inflight :
    LET inv == inflight[p]
    IN /\ inv.pc = "lookup1"
       /\ inflight' =
            [inflight EXCEPT ![p] =
               afterLookup1(inv, getTask(table, inv.domain, inv.id))]
       /\ UNCHANGED <<table, now, last, live, calls>>

\* the second lookup
LookupStep ==
  \E p \in DOMAIN inflight :
    LET inv == inflight[p]
        linkedTask == getTask(table, inv.domain, inv.arg)
        note == IF inv.op = "linkTask"
                THEN linkNote(linkedTask, inv.by)
                ELSE unlinkNote(linkedTask, inv.by)
    IN /\ inv.pc = "lookup2"
       /\ inflight' =
            [inflight EXCEPT ![p] =
               Asks(inv, <<[call |-> "updateTask", arg |-> inv.patch],
                           [call |-> "addActivity", arg |-> note]>>)]
       /\ UNCHANGED <<table, now, last, live, calls>>

(***************************************************************************)
(* A store call that reads before it writes: the store serves the read,    *)
(* the call goes on with the answer, reads the clock, builds the item and  *)
(* sends the put, the store serves the put.                                *)
(***************************************************************************)
\* the key of the item a store call of the invocation reads
keyOf(inv, c) ==
  CASE c.call \in {"updateTask", "updateTaskMerge", "addActivity"} ->
         buildTaskPK(inv.domain, inv.id)
    [] c.call = "updateTicket" -> buildTicketPK(inv.domain, inv.id)
    [] c.call \in {"updateUser", "createUser"} ->
         buildUserPK(inv.domain, inv.id)

\* the answers the store can give to the read of store call c
answers(tbl, inv, c) ==
  CASE c.call \in {"updateTask", "updateTaskMerge", "addActivity"} ->
         {getTask(tbl, inv.domain, inv.id)}
    [] c.call = "updateTicket" -> {getTicket(tbl, inv.domain, inv.id)}
    [] c.call = "updateUser" -> {getUser(tbl, inv.domain, inv.id)}
    [] c.call = "createUser" -> getUserByEmail(tbl, inv.domain, c.arg.email)

\* the table as far as the answer of a GetCommand shows it
Answered(pk, data) ==
  IF data = Null THEN <<>> ELSE PutItem(<<>>, [PK |-> pk, data |-> data])

\* store call c of an invocation on the answer of its read
storeCall(inv, c, seen, ts, suffix) ==
  LET tbl == Answered(keyOf(inv, c), seen)
  IN CASE c.call = "updateTask" ->
            updateTask(tbl, inv.domain, inv.id, c.arg, inv.by, ts)
       [] c.call = "updateTaskMerge" ->
            updateTaskMerge(tbl, inv.domain, inv.id, c.arg, inv.by, ts)
       [] c.call = "addActivity" ->
            addActivity(tbl, inv.domain, inv.id, c.arg, ts)
       [] c.call = "updateTicket" ->
            updateTicket(tbl, inv.domain, inv.id, c.arg, inv.by, ts)
       [] c.call = "updateUser" ->
            updateUser(tbl, inv.domain, inv.id, c.arg, ts)
       [] c.call = "createUser" ->
            createUser(<<>>, inv.domain, c.arg, seen, ts, suffix)

\* the item a store call puts: the one item of the table it leaves
putItemOf(out) == out.table[CHOOSE pk \in DOMAIN out.table : TRUE]

\* the id of the entity the store call writes
idOf(inv, c, out) == IF c.call = "createUser" THEN out.result.userId ELSE inv.id

\* the store serves the read of the next store call
ReadStep ==
  \E p \in DOMAIN inflight :
    LET inv == inflight[p]
    IN /\ inv.pc = "read"
       /\ \E seen \in answers(table, inv, Head(inv.calls)) :
            inflight' = [inflight EXCEPT ![p] = Got(inv, seen)]
       /\ UNCHANGED <<table, now, last, live, calls>>

\* the store call after the answer: a throw (nothing found, or the email
\* taken) lands in the handler's catch block, otherwise the item is built
afterRead(inv, ts, suffix) ==
  LET c == Head(inv.calls)
      out == storeCall(inv, c, inv.seen, ts, suffix)
  IN IF out.status # "ok"
     THEN Done(inv, 500)
     ELSE Sent([inv EXCEPT !.calls = Tail(inv.calls),
                           !.id = idOf(inv, c, out)],
               putItemOf(out), inv.seen)

\* the store call goes on with the answer of its read
BuildStep ==
  \E p \in DOMAIN inflight, ts \in ClockReads(UpdateReads),
     x \in Suffixes :
    LET inv == inflight[p]
        out == storeCall(inv, Head(inv.calls), inv.seen, ts, x)
    IN /\ inv.pc = "got"
       /\ inflight' = [inflight EXCEPT ![p] = afterRead(inv, ts, x)]
       /\ now' = ClockAfter(ts, out.reads)
       /\ UNCHANGED <<table, last, live, calls>>

\* faulty variant: a put that is dropped when the stored item is not the one
\* that was read
putPendingIfUnchanged(tbl, inv) ==
  IF inv.item.PK \in DOMAIN tbl /\ tbl[inv.item.PK].data # inv.seen
  THEN tbl
  ELSE PutItem(tbl, inv.item)

\* faulty variant: a put that is dropped when a stored profile of the domain
\* has the email
putPendingIfEmailFree(tbl, inv) ==
  IF \E pk \in DOMAIN tbl :
       /\ tbl[pk].GSI1PK = inv.item.GSI1PK
       /\ Has(tbl[pk].data, "email") /\ Has(inv.item.data, "email")
       /\ tbl[pk].data.email = inv.item.data.email
  THEN tbl
  ELSE PutItem(tbl, inv.item)

\* the put of the pending item: a PutCommand without a condition
putPending(tbl, inv) == PutItem(tbl, inv.item)

\* the invocation after its put: the next store call, the last read of
\* linkTaskHandler and unlinkTaskHandler, or the response
afterPut(inv) ==
  IF inv.calls # <<>>
  THEN Asks(inv, inv.calls)
  ELSE IF inv.op \in {"linkTask", "unlinkTask"}
  THEN At(inv, "final")
  ELSE Done(inv, IF inv.op \in {"createTask", "createTicket", "createUser"}
                 THEN 201 ELSE 200)

\* the entity a put of the invocation creates
Created(inv) ==
  CASE inv.op = "createTask" -> {<<"TASK", inv.domain, inv.id>>}
    [] inv.op = "createTicket" -> {<<"TICKET", inv.domain, inv.id>>}
    [] inv.op = "createUser" -> {<<"USER", inv.domain, inv.id>>}
    [] OTHER -> {}

PutStep ==
  \E p \in DOMAIN inflight :
    LET inv == inflight[p]
    IN /\ inv.pc = "put"
       /\ table' = putPending(table, inv)
       /\ last' = [op |-> inv.op, domain |-> inv.domain, id |-> inv.id,
                   arg |-> inv.arg]
       /\ live' = live \cup Created(inv)
       /\ inflight' = [inflight EXCEPT ![p] = afterPut(inv)]
       /\ UNCHANGED <<now, calls>>

\* the store serves the last read of linkTaskHandler or unlinkTaskHandler
\* and the handler answers with the task
FinalStep ==
  \E p \in DOMAIN inflight :
    /\ inflight[p].pc = "final"
    /\ inflight' = [inflight EXCEPT ![p] = Done(inflight[p], 200)]
    /\ UNCHANGED <<table, now, last, live, calls>>

\* the pcs at which an invocation waits for a command it has sent
Waiting == {"lookup1", "lookup2", "read", "put", "final", "delete"}

\* a command fails: the store function throws and the handler answers 500
\* from its catch block
StoreError ==
  \E p \in DOMAIN inflight :
    /\ inflight[p].pc \in Waiting
    /\ inflight' = [inflight EXCEPT ![p] = Done(inflight[p], 500)]
    /\ UNCHANGED <<table, now, last, live, calls>>

Next ==
  \/ Tick
  \/ BeginCreateTask \/ BeginUpdateTask \/ BeginUpdateTaskMerge
  \/ BeginAddComment \/ BeginDeleteTask
  \/ BeginLink \/ BeginUnlink \/ Lookup1Step \/ LookupStep \/ FinalStep
  \/ BeginCreateTicket \/ BeginUpdateTicket \/ BeginDeleteTicket
  \/ BeginCreateUser \/ BeginUpdateUser \/ BeginDeleteUser
  \/ ReadStep \/ BuildStep \/ PutStep \/ DeleteStep \/ StoreError

Spec == Init /\ [][Next]_vars

\* the requests of all families served one at a time, SeqCalls of them
NextSeq == Next /\ calls' <= SeqCalls

SpecSeq == InitSeq /\ [][NextSeq]_vars

(***************************************************************************)
(* The same machine with the requests of one entity family only, served    *)
(* by the handlers of handlers/tasks.ts.                                   *)
(***************************************************************************)
NextTask ==
  \/ Tick
  \/ BeginCreateTask \/ BeginUpdateTask \/ BeginAddComment \/ BeginDeleteTask
  \/ BeginLink \/ BeginUnlink \/ Lookup1Step \/ LookupStep \/ FinalStep
  \/ ReadStep \/ BuildStep \/ PutStep \/ DeleteStep

SpecTask == InitSeq /\ [][NextTask]_vars

\* tasks that are only created, linked and unlinked
NextLink ==
  \/ Tick
  \/ BeginCreateTask
  \/ BeginLink \/ BeginUnlink \/ Lookup1Step \/ LookupStep \/ FinalStep
  \/ ReadStep \/ BuildStep \/ PutStep

SpecLink == InitSeq /\ [][NextLink]_vars

NextUser ==
  \/ Tick
  \/ BeginCreateUser \/ BeginUpdateUser \/ BeginDeleteUser
  \/ ReadStep \/ BuildStep \/ PutStep \/ DeleteStep

SpecUser == InitSeq /\ [][NextUser]_vars

InitTicket ==
  /\ \/ table = <<>> /\ live = {}
     \/ /\ table = PutItem(<<>>, LegacyTicket)
        /\ live = {<<"TICKET", "acme", LegacyTicketId>>}
  /\ now = 1
  /\ last = [op |-> "init"]
  /\ calls = 0
  /\ inflight = [p \in {"p1"} |-> Idle]

NextTicket ==
  \/ Tick
  \/ BeginCreateTicket \/ BeginUpdateTicket
  \/ ReadStep \/ BuildStep \/ PutStep

SpecTicket == InitTicket /\ [][NextTicket]_vars

(***************************************************************************)
(* Invocations that run at the same time.                                  *)
(***************************************************************************)
\* The first request has been answered: a task created at time 1.
FirstTask ==
  createTaskHandler(<<>>, "acme", "ann@acme.com", [title |-> "A"],
                    <<1, 1>>, "k3x")

FirstCall ==
  [op |-> "createTask", domain |-> "acme", id |-> FirstTask.body.task.id,
   arg |-> [title |-> "A"], by |-> "ann@acme.com", calls |-> <<>>]

InitRace ==
  /\ table = FirstTask.table
  /\ now = 1
  /\ last = [op |-> "createTask", domain |-> "acme",
             id |-> FirstCall.id, arg |-> FirstCall.arg]
  /\ live = Created(FirstCall)
  /\ calls = 1
  /\ inflight = [p \in Procs |->
                   IF p = "p1" THEN Done(FirstCall, 201) ELSE Idle]

NextRace == NextTask \/ StoreError

SpecRace == InitRace /\ [][NextRace]_vars

NextUserRace == Tick \/ BeginCreateUser \/ ReadStep \/ BuildStep \/ PutStep

SpecUserRace == Init /\ [][NextUserRace]_vars

NextDeleteRace ==
  \/ Tick
  \/ BeginCreateTask \/ BeginDeleteTask \/ DeleteStep
  \/ BeginUpdateTask \/ BeginAddComment
  \/ BeginLink \/ Lookup1Step \/ LookupStep \/ FinalStep
  \/ ReadStep \/ BuildStep \/ PutStep

SpecDeleteRace == InitRace /\ [][NextDeleteRace]_vars

(***************************************************************************)
(* Requests of authenticated callers: the handler derives the store domain *)
(* from the claims of the caller.                                          *)
(***************************************************************************)
Callers ==
  { [sub |-> "u1", email |-> "ann@acme.com"],
    [sub |-> "u2", email |-> "eve@acme.org"],
    [sub |-> "u3", email |-> "bob@globex.com"],
    [sub |-> "u4", email |-> "dan@acme.com", customDomain |-> "acme#TASK#x"],
    [sub |-> "u5", email |-> "nodomain"],
    [sub |-> "u6"] }

\* bodies of POST /users
UserBodies ==
  {[email |-> Chars(e), name |-> "N", role |-> "admin"] :
     e \in {"bob@acme.com", "bob@ACME.com", "bob@acmecorp.io",
            "bob@globex.com", "bob@acme", "bob"}}
    \cup {[email |-> Chars("cy@acme.com"), name |-> "C"], [name |-> "N"], Null}

CallCreateTask ==
  \E p \in DOMAIN inflight, claims \in Callers, body \in TaskBodies,
     x \in Suffixes, ts \in ClockReads(2) :
    LET user == getUserFromEvent(claims)
        out == createTaskHandler(table, user.domain, user.email, body, ts, x)
        id == IF out.statusCode = 201 THEN out.body.task.id ELSE ""
    IN Creates(p, [op |-> "createTask", domain |-> user.domain, id |-> id,
                   arg |-> body, by |-> user.email, calls |-> <<>>],
               out, GetItem(out.table, buildTaskPK(user.domain, id)), ts)

CallCreateUser ==
  \E p \in DOMAIN inflight, claims \in Callers, body \in UserBodies :
    LET user == getUserFromEvent(claims)
    IN /\ createUserGuard(user.domain, body) = Null
       /\ Arrives(p, Asks([op |-> "createUser", domain |-> user.domain,
                           id |-> "", arg |-> body, by |-> user.email],
                          <<[call |-> "createUser",
                             arg |-> createUserData(body)]>>))

NextCallers ==
  Tick \/ CallCreateTask \/ CallCreateUser \/ ReadStep \/ BuildStep \/ PutStep

SpecCallers == InitSeq /\ [][NextCallers]_vars

\* the callers creating tasks, each in the store domain of its claims
NextTenants == Tick \/ CallCreateTask \/ PutStep

SpecTenants == InitSeq /\ [][NextTenants]_vars

(***************************************************************************)
(* The key builders on their own, applied to the strings a caller may      *)
(* supply: the domain of the custom:domain claim and the id of the path,   *)
(* which may contain the separator.  Neither is empty: getUserFromEvent    *)
(* replaces an empty domain ("default" at last) and the handlers answer    *)
(* 400 to an empty path id.                                                *)
(***************************************************************************)
EntityTypes == {"TASK", "TICKET", "USER", "SPRINT"}

KeyDomains == {"acme", "globex", "acme#TASK#x", "acme#TYPE#TASK", "default"}

KeyIds ==
  {"task-1-k3x", "x#TASK#task-1-k3x", "ticket-1-k3x", "TASK", "#",
   "user-1-k3x"}

\* the primary key of an entity of the type
buildPK(domain, entityType, id) ==
  CASE entityType = "TASK" -> buildTaskPK(domain, id)
    [] entityType = "TICKET" -> buildTicketPK(domain, id)
    [] entityType = "USER" -> buildUserPK(domain, id)
    [] entityType = "SPRINT" -> buildSprintPK(domain, id)

BuildKeys ==
  \E d \in KeyDomains, type \in EntityTypes, id \in KeyIds :
    /\ last' = [op |-> "buildKeys", domain |-> d, type |-> type, id |-> id,
                PK |-> buildPK(d, type, id),
                GSI1PK |-> buildDomainGSI1PK(d, type)]
    /\ UNCHANGED <<table, now, live, calls, inflight>>

NextKeys == BuildKeys

SpecKeys == Init /\ [][NextKeys]_vars

(***************************************************************************)
(* Properties.  A property of a call is stated for every reachable state   *)
(* and every request: the outcome of the call in that state.               *)
(***************************************************************************)
IsPrefix(a, b) == Len(a) <= Len(b) /\ \A i \in 1..Len(a) : b[i] = a[i]

\* the keys whose item differs between two tables
Changed(t1, t2) ==
  {pk \in DOMAIN t1 \cup DOMAIN t2 :
     pk \notin DOMAIN t1 \/ pk \notin DOMAIN t2 \/ t1[pk] # t2[pk]}

Tracked == {"status", "assignedTo", "hoursSpent", "hoursExpected"}

\* the activities a call appended to the log of existingTask
Appended(existingTask, task) ==
  SubSeq(task.activities, Len(existingTask.activities) + 1, Len(task.activities))

\* the store domains of the callers
TenantDomains == {getUserFromEvent(claims).domain : claims \in Callers}

\* C1: key isolation.  After any sequence of operations in any domains, for
\* all domains d1 # d2 and any entity id, getTask, getTicket and getUser of
\* (d1, id) return nothing or an entity that was created under d1 with that
\* id, never one created under d2.  The domains are those of the callers'
\* claims, the ids the generated ones and those a request path may carry.
C1_KeyIsolation ==
  \A d1 \in TenantDomains : \A d2 \in TenantDomains \ {d1} :
    /\ \A id \in TaskIds \cup KeyIds :
         LET r == getTask(table, d1, id)
         IN r # Null =>
              r.domain = d1 /\ r.domain # d2 /\ <<"TASK", d1, id>> \in live
    /\ \A id \in TicketIds \cup KeyIds :
         LET r == getTicket(table, d1, id)
         IN r # Null =>
              r.domain = d1 /\ r.domain # d2 /\ <<"TICKET", d1, id>> \in live
    /\ \A id \in UserIds \cup KeyIds :
         LET r == getUser(table, d1, id)
         IN r # Null =>
              r.domain = d1 /\ r.domain # d2 /\ <<"USER", d1, id>> \in live

\* the outcome of an update kept id and domain and wrote the one item
IdentityKept(tbl, existing, out, idField) ==
  /\ out.status = "ok"
  /\ out.result[idField] = existing[idField]
  /\ out.result.domain = existing.domain
  /\ DOMAIN out.table = DOMAIN tbl
  /\ \A pk \in Changed(tbl, out.table) :
       /\ tbl[pk].data = existing
       /\ out.table[pk].data = out.result
       /\ out.table[pk].PK = tbl[pk].PK
       /\ out.table[pk].domain = tbl[pk].domain
  /\ Cardinality(Changed(tbl, out.table)) <= 1

\* the patch carries another id or another domain
Tampers(u, idField, existing) ==
  \/ Has(u, idField) /\ u[idField] # existing[idField]
  \/ Has(u, "domain") /\ u.domain # existing.domain

\* C2: immutable identity fields.  An update whose patch carries another id
\* (userId) or domain stores and returns the entity with its original id and
\* domain, and the write touches no other key.
C2_ImmutableIdentity ==
  \A d \in Domains :
    /\ \A id \in TaskIds, u \in TaskPatches, by \in Actors :
         LET e == getTask(table, d, id)
         IN (e # Null /\ Tampers(u, "id", e)) =>
              \A ts \in ClockReads(UpdateReads) :
                LET out == updateTask(table, d, id, u, by, ts)
                IN /\ IdentityKept(table, e, out, "id")
                   /\ getTask(out.table, d, id) = out.result
    /\ \A id \in TicketIds, u \in TicketPatches, by \in Actors :
         LET e == getTicket(table, d, id)
         IN (e # Null /\ Tampers(u, "id", e)) =>
              \A ts \in ClockReads(1) :
                LET out == updateTicket(table, d, id, u, by, ts)
                IN /\ IdentityKept(table, e, out, "id")
                   /\ getTicket(out.table, d, id) = out.result
    /\ \A id \in UserIds, u \in UserPatches :
         LET e == getUser(table, d, id)
         IN (e # Null /\ Tampers(u, "userId", e)) =>
              \A ts \in ClockReads(1) :
                LET out == updateUser(table, d, id, u, ts)
                IN /\ IdentityKept(table, e, out, "userId")
                   /\ getUser(out.table, d, id) = out.result

\* an update with another id and domain in its patch has been applied
C2_Witness ==
  /\ last.op = "updateTask"
  /\ Has(last.arg, "id") /\ last.arg.id # last.id
  /\ Has(last.arg, "domain") /\ last.arg.domain # last.domain
  /\ getTask(table, last.domain, last.id) # Null
  /\ getTask(table, last.domain, last.id).id = last.id
  /\ getTask(table, last.domain, last.id).domain = last.domain

\* C3: activities only grow.  After updateTask with any patch, a patch that
\* carries activities included, and after addActivity, the stored activities
\* start with the activities stored before the call.
C3_ActivitiesGrow ==
  \A d \in Domains, id \in TaskIds :
    LET e == getTask(table, d, id)
    IN e # Null =>
         /\ \A u \in TaskPatches, by \in Actors,
                 ts \in ClockReads(UpdateReads) :
              LET out == updateTask(table, d, id, u, by, ts)
              IN /\ out.status = "ok"
                 /\ IsPrefix(e.activities, getTask(out.table, d, id).activities)
         /\ \A a \in Comments, ts \in ClockReads(3) :
              LET out == addActivity(table, d, id, a, ts)
              IN /\ out.status = "ok"
                 /\ IsPrefix(e.activities, getTask(out.table, d, id).activities)

\* a patch carrying an activities field has been applied to a task with a log
C3_Witness ==
  /\ last.op = "updateTask"
  /\ Has(last.arg, "activities")
  /\ Len(getTask(table, last.domain, last.id).activities) >= 2
  /\ getTask(table, last.domain, last.id).activities # last.arg.activities

\* the log grew by n and kept the id and timestamp of its earlier entries
KeepsLog(before, after, n) ==
  /\ Len(after) = Len(before) + n
  /\ \A i \in 1..Len(before) :
       after[i].id = before[i].id /\ after[i].timestamp = before[i].timestamp

\* C4: append-only log count.  n addActivity calls in a row lengthen the
\* stored activities by n and leave the id and timestamp of every earlier
\* activity as they were (stated for one call and for two calls in a row,
\* from every reachable state).
C4_AppendOnlyCount ==
  \A d \in Domains, id \in TaskIds :
    LET e == getTask(table, d, id)
    IN e # Null =>
         \A a1 \in Comments, a2 \in Comments, ts1 \in ClockReads(3) :
           \A ts2 \in ClockReadsFrom(ts1[3], 3) :
           LET o1 == addActivity(table, d, id, a1, ts1)
               o2 == addActivity(o1.table, d, id, a2, ts2)
           IN /\ o1.status = "ok" /\ o2.status = "ok"
              /\ KeepsLog(e.activities, getTask(o1.table, d, id).activities, 1)
              /\ KeepsLog(e.activities, getTask(o2.table, d, id).activities, 2)

\* two addActivity calls have been applied to a created task
C4_Witness ==
  /\ last.op = "addActivity"
  /\ LET acts == getTask(table, last.domain, last.id).activities
     IN /\ Len(acts) = 3
        /\ acts[1].type = "created"
        /\ acts[2].type = "comment"
        /\ acts[3].type = "comment"

\* C5: no activity on a no-op value.  When a patch carries a tracked field
\* with the value the stored task has for it, updateTask appends no activity
\* for that field.
C5_NoActivityOnNoop ==
  \A d \in Domains, id \in TaskIds, u \in TaskPatches, by \in Actors,
     ts \in ClockReads(UpdateReads) :
    LET e == getTask(table, d, id)
    IN e # Null =>
         LET out == updateTask(table, d, id, u, by, ts)
             new == Appended(e, out.result)
         IN \A f \in Tracked :
              (Has(u, f) /\ u[f] = e[f]) =>
                \A i \in 1..Len(new) :
                  ~(Has(new[i], "metadata") /\ new[i].metadata.fieldName = f)

\* a patch whose status is the stored status has been applied, and it left
\* no status activity although it logged an assignment
C5_Witness ==
  /\ last.op = "updateTask"
  /\ Has(last.arg, "status")
  /\ LET task == getTask(table, last.domain, last.id)
     IN /\ task # Null
        /\ task.status = last.arg.status
        /\ \A i \in 1..Len(task.activities) :
             task.activities[i].type # "status_change"
        /\ \E i \in 1..Len(task.activities) :
             task.activities[i].type = "assignment"

\* the activity type that goes with a tracked field
TypeOfField(f) ==
  CASE f = "status" -> "status_change"
    [] f = "assignedTo" -> "assignment"
    [] OTHER -> "hours_update"

\* updateTask appends exactly one activity for each tracked field whose
\* change Detected(f, u, e) tells, of the type of the field, with
\* metadata.fieldName the field and metadata.oldValue / newValue the stored
\* and the patched value as Recorded(f, v) gives them, and nothing else
DiffMapped(Recorded(_, _), Detected(_, _, _)) ==
  \A d \in Domains, id \in TaskIds, u \in TaskPatches, by \in Actors,
     ts \in ClockReads(UpdateReads) :
    LET e == getTask(table, d, id)
    IN e # Null =>
         LET out == updateTask(table, d, id, u, by, ts)
             new == Appended(e, out.result)
             diff == {f \in Tracked : Detected(f, u, e)}
         IN /\ Len(new) = Cardinality(diff)
            /\ \A i \in 1..Len(new) :
                 Has(new[i], "metadata") /\ new[i].metadata.fieldName \in diff
            /\ \A f \in diff :
                 \E i \in 1..Len(new) :
                   /\ new[i].metadata.fieldName = f
                   /\ new[i].type = TypeOfField(f)
                   /\ new[i].metadata.oldValue = Recorded(f, e[f])
                   /\ new[i].metadata.newValue = Recorded(f, u[f])
                   /\ \A j \in 1..Len(new) :
                        new[j].metadata.fieldName = f => j = i

\* the value itself (a number in its decimal form)
AsStored(f, v) ==
  IF f \in {"hoursSpent", "hoursExpected"} THEN ToString(v) ELSE v

\* the value itself, an empty assignee recorded as "Unassigned"
AsLogged(f, v) ==
  IF f = "assignedTo" /\ v = "" THEN "Unassigned" ELSE AsStored(f, v)

\* the patched value of the field differs from the stored one
Differs(f, u, e) == Has(u, f) /\ u[f] # e[f]

\* the same, a patched empty status not counted
DiffersLogged(f, u, e) == Differs(f, u, e) /\ ~(f = "status" /\ u[f] = "")

\* C6 as stated: diff-to-activity mapping.  updateTask appends exactly one
\* activity for each tracked field whose patched value differs from the
\* stored one, of type status_change, assignment or hours_update, with
\* metadata.oldValue the stored previous value and metadata.newValue the
\* patched value, and appends nothing else.
C6_DiffMapping_Original == DiffMapped(AsStored, Differs)

\* C6: diff-to-activity mapping, as the code has it.  The same, except that
\* a patched empty status is stored without an activity, that an empty
\* assignedTo, stored or patched, is logged as "Unassigned", and that hours
\* are logged in their decimal form.
C6_DiffMapping ==
  /\ DiffMapped(AsLogged, DiffersLogged)
  /\ \A d \in Domains, id \in TaskIds, by \in Actors,
        ts \in ClockReads(UpdateReads) :
       LET e == getTask(table, d, id)
           out == updateTask(table, d, id, [status |-> ""], by, ts)
       IN e # Null =>
            /\ out.result.status = ""
            /\ out.result.activities = e.activities

\* a first assignment has been logged, from the empty stored assignee, and
\* then an empty status has been stored without an activity
C6_Witness ==
  /\ last.op = "updateTask"
  /\ last.arg = [status |-> ""]
  /\ LET task == getTask(table, last.domain, last.id)
     IN /\ task # Null
        /\ task.status = ""
        /\ \A i \in 1..Len(task.activities) :
             task.activities[i].type # "status_change"
        /\ \E i \in 1..Len(task.activities) :
             /\ task.activities[i].type = "assignment"
             /\ task.activities[i].metadata.oldValue = "Unassigned"
             /\ task.activities[i].metadata.newValue = "ann"

\* r lists the live entities of the type and domain, each once, by createdAt
ListedRight(r, type, d, idField) ==
  /\ {r[i][idField] : i \in 1..Len(r)} = {k[3] : k \in {x \in live : x[1] = type /\ x[2] = d}}
  /\ \A i, j \in 1..Len(r) : i # j => r[i][idField] # r[j][idField]
  /\ \A i \in 1..Len(r) : r[i].domain = d
  /\ \A i, j \in 1..Len(r) : i < j => StrLeq(r[i].createdAt, r[j].createdAt)

\* C7: list ordering and completeness.  getTasks, getTickets and getUsers of
\* a domain return exactly the entities of the type created under the domain
\* and not deleted since, each once, ordered by their createdAt ascending.
C7_ListOrderedComplete ==
  \A d \in Domains :
    /\ \A r \in getTasks(table, d) : ListedRight(r, "TASK", d, "id")
    /\ \A r \in getTickets(table, d) : ListedRight(r, "TICKET", d, "id")
    /\ \A r \in getUsers(table, d) : ListedRight(r, "USER", d, "userId")

\* C8: idempotent delete.  deleteTask, deleteTicket and deleteUser never fail
\* on a missing item: two deletes in a row both succeed, and after each the
\* entity is absent.
C8_IdempotentDelete ==
  \A d \in Domains :
    /\ \A id \in TaskIds :
         LET o1 == deleteTask(table, d, id)
             o2 == deleteTask(o1.table, d, id)
         IN /\ o1.status = "ok" /\ getTask(o1.table, d, id) = Null
            /\ o2.status = "ok" /\ getTask(o2.table, d, id) = Null
    /\ \A id \in TicketIds :
         LET o1 == deleteTicket(table, d, id)
             o2 == deleteTicket(o1.table, d, id)
         IN /\ o1.status = "ok" /\ getTicket(o1.table, d, id) = Null
            /\ o2.status = "ok" /\ getTicket(o2.table, d, id) = Null
    /\ \A id \in UserIds :
         LET o1 == deleteUser(table, d, id)
             o2 == deleteUser(o1.table, d, id)
         IN /\ o1.status = "ok" /\ getUser(o1.table, d, id) = Null
            /\ o2.status = "ok" /\ getUser(o2.table, d, id) = Null

\* a task has just been deleted; deleting it again finds no item
C8_Witness ==
  /\ last.op = "deleteTask"
  /\ getTask(table, last.domain, last.id) = Null
  /\ <<"TASK", last.domain, last.id>> \notin live
  /\ deleteTask(table, last.domain, last.id).status = "ok"
  /\ deleteTask(table, last.domain, last.id).table = table

\* the entity has every field of the payload, with the payload's value
Carries(e, payload) == \A k \in DOMAIN payload : Has(e, k) /\ e[k] = payload[k]

\* C9: create/get round trip.  The entity e returned by createTask or
\* createTicket is what get of (domain, e.id) returns right after, and e
\* carries the fields of the payload, with createdAt = updatedAt.
C9_CreateGetRoundTrip ==
  \A d \in Domains, by \in Actors, x \in Suffixes, ts \in ClockReads(2) :
    /\ \A p \in TaskPayloads :
         LET out == createTask(table, d, p, by, ts, x)
         IN /\ getTask(out.table, d, out.result.id) = out.result
            /\ out.result.createdAt = out.result.updatedAt
            /\ Carries(out.result, p)
    /\ \A p \in TicketPayloads :
         LET out == createTicket(table, d, p, by, ts, x)
         IN /\ getTicket(out.table, d, out.result.id) = out.result
            /\ out.result.createdAt = out.result.updatedAt
            /\ Carries(out.result, p)

\* the keys of the user profiles stored in a domain
UsersOf(tbl, d) ==
  {pk \in DOMAIN tbl : tbl[pk].entityType = "USER" /\ tbl[pk].domain = d}

\* a stored profile of the domain has the email, ignoring case
Taken(tbl, d, email) ==
  \E pk \in UsersOf(tbl, d) :
    toLowerCase(tbl[pk].data.email) = toLowerCase(email)

\* C10: email uniqueness.  No two user profiles stored in one domain have
\* emails that are equal ignoring case, and createUser with an email that
\* matches a stored profile's, ignoring case, fails with the duplicate-email
\* error and leaves the table as it was.
C10_EmailUnique ==
  \A d \in Domains :
    /\ \A pk1 \in UsersOf(table, d), pk2 \in UsersOf(table, d) :
         pk1 # pk2 =>
           toLowerCase(table[pk1].data.email) # toLowerCase(table[pk2].data.email)
    /\ \A p \in UserPayloads, x \in Suffixes, ts \in ClockReads(2) :
         Taken(table, d, p.email) =>
           \A existingUser \in getUserByEmail(table, d, p.email) :
             LET out == createUser(table, d, p, existingUser, ts, x)
             IN /\ out.status = "User with this email already exists"
                /\ out.table = table

\* two profiles are stored in a domain, the patch of the latest update
\* carried the email of the other one, and a create with the first email in
\* another case is refused
C10_Witness ==
  /\ last.op = "updateUser"
  /\ Has(last.arg, "email")
  /\ Cardinality(UsersOf(table, last.domain)) = 2
  /\ getUser(table, last.domain, last.id).email # last.arg.email
  /\ Taken(table, last.domain, last.arg.email)
  /\ Taken(table, last.domain, Chars("A@ACME"))
\* the last entry of a log
LastOf(acts) == acts[Len(acts)]

\* C12: link then unlink.  For two stored tasks T1, T2 of a domain with
\* T1.linkedTasks empty, linkTaskHandler(T1, T2) leaves T1.linkedTasks =
\* [T2.id] and appends exactly one activity, of type assignment; a following
\* unlinkTaskHandler(T1, T2) leaves T1.linkedTasks = [] and appends exactly
\* one more assignment activity whose text begins with "Unlinked"; the log
\* has grown by two over the two calls.
C12_LinkThenUnlink ==
  \A d \in Domains, id \in TaskIds, other \in TaskIds, by \in Actors :
    LET T1 == getTask(table, d, id)
        T2 == getTask(table, d, other)
    IN (T1 # Null /\ T2 # Null /\ T1.linkedTasks = <<>>) =>
         \A ts1 \in ClockReads(LinkReads) :
           \A ts2 \in ClockReadsFrom(ts1[LinkReads], LinkReads) :
           LET o1 == linkTaskHandler(table, d, by, id, other, ts1)
               a1 == getTask(o1.table, d, id)
               o2 == unlinkTaskHandler(o1.table, d, by, id, other, ts2)
               a2 == getTask(o2.table, d, id)
           IN /\ o1.statusCode = 200
              /\ a1.linkedTasks = <<T2.id>>
              /\ Len(a1.activities) = Len(T1.activities) + 1
              /\ IsPrefix(T1.activities, a1.activities)
              /\ LastOf(a1.activities).type = "assignment"
              /\ o2.statusCode = 200
              /\ a2.linkedTasks = <<>>
              /\ Len(a2.activities) = Len(T1.activities) + 2
              /\ IsPrefix(a1.activities, a2.activities)
              /\ LastOf(a2.activities).type = "assignment"
              /\ SubSeq(LastOf(a2.activities).text, 1, 8) = "Unlinked"

\* a task has just been linked to another stored task, and unlinking it
\* from here empties linkedTasks again
C12_Witness ==
  /\ last.op = "linkTask"
  /\ last.arg # last.id
  /\ getTask(table, last.domain, last.arg) # Null
  /\ inflight["p1"].pc = "done"
  /\ LET T1 == getTask(table, last.domain, last.id)
         o2 == unlinkTaskHandler(table, last.domain, "ann@acme.com",
                                 last.id, last.arg,
                                 [i \in 1..LinkReads |-> now])
     IN /\ T1.linkedTasks = <<last.arg>>
        /\ Len(T1.activities) = 2
        /\ LastOf(T1.activities).text = "Linked to task: A"
        /\ o2.statusCode = 200
        /\ getTask(o2.table, last.domain, last.id).linkedTasks = <<>>
        /\ Len(getTask(o2.table, last.domain, last.id).activities) = 3
\* the call kept createdAt and the sort key of the item and stamped updatedAt
KeptCreatedAt(tbl, pk, e, out, t) ==
  /\ out.result.createdAt = e.createdAt
  /\ out.table[pk].data.createdAt = tbl[pk].data.createdAt
  /\ out.table[pk].GSI1SK = tbl[pk].GSI1SK
  /\ out.table[pk].createdAt = tbl[pk].createdAt
  /\ out.result.updatedAt = toISOString(t)
  /\ out.table[pk].updatedAt = toISOString(t)

\* C13: createdAt and index position are preserved by update.  Every stored
\* entity has the createdAt stamped at its creation, in its data and as the
\* GSI1SK of its item, and updateTask, updateTicket, updateUser and
\* addActivity with any patch, a patch that carries createdAt included, keep
\* both and set updatedAt to the time of the call.
C13_CreatedAtPreserved ==
  \A d \in Domains :
    /\ \A taskId \in TaskIds :
         LET task == getTask(table, d, taskId)
             pk == buildTaskPK(d, taskId)
         IN task # Null =>
              /\ table[pk].GSI1SK = task.createdAt
              /\ table[pk].createdAt = task.createdAt
              /\ \A u \in TaskPatches, by \in Actors,
                    ts \in ClockReads(UpdateReads) :
                   KeptCreatedAt(table, pk, task,
                                 updateTask(table, d, taskId, u, by, ts), ts[1])
              /\ \A a \in Comments, ts \in ClockReads(3) :
                   KeptCreatedAt(table, pk, task,
                                 addActivity(table, d, taskId, a, ts), ts[3])
    /\ \A ticketId \in TicketIds :
         LET ticket == getTicket(table, d, ticketId)
             pk == buildTicketPK(d, ticketId)
         IN ticket # Null =>
              /\ table[pk].GSI1SK = ticket.createdAt
              /\ table[pk].createdAt = ticket.createdAt
              /\ \A u \in TicketPatches, by \in Actors, ts \in ClockReads(1) :
                   KeptCreatedAt(table, pk, ticket,
                                 updateTicket(table, d, ticketId, u, by, ts),
                                 ts[1])
    /\ \A userId \in UserIds :
         LET user == getUser(table, d, userId)
             pk == buildUserPK(d, userId)
         IN user # Null =>
              /\ table[pk].GSI1SK = user.createdAt
              /\ table[pk].createdAt = user.createdAt
              /\ \A u \in UserPatches, ts \in ClockReads(1) :
                   KeptCreatedAt(table, pk, user,
                                 updateUser(table, d, userId, u, ts), ts[1])

\* the call failed with the not-found error and left the table as it was
NotFound(tbl, out, what) ==
  /\ out.status = what \o " not found"
  /\ out.result = Null
  /\ out.reads = 0
  /\ out.table = tbl
  /\ Changed(tbl, out.table) = {}

\* C14: not-found leaves the store unchanged.  updateTask, updateTicket,
\* updateUser and addActivity called for a (domain, id) with no stored item
\* fail with a not-found error and write nothing: no item appears at the
\* key and every other item is as before.
C14_NotFoundNoWrite ==
  \A d \in Domains :
    /\ \A id \in TaskIds :
         buildTaskPK(d, id) \notin DOMAIN table =>
           /\ \A u \in TaskPatches, by \in Actors,
                 ts \in ClockReads(UpdateReads) :
                NotFound(table, updateTask(table, d, id, u, by, ts), "Task")
           /\ \A a \in Comments, ts \in ClockReads(3) :
                NotFound(table, addActivity(table, d, id, a, ts), "Task")
    /\ \A id \in TicketIds :
         buildTicketPK(d, id) \notin DOMAIN table =>
           \A u \in TicketPatches, by \in Actors, ts \in ClockReads(1) :
             NotFound(table, updateTicket(table, d, id, u, by, ts), "Ticket")
    /\ \A id \in UserIds :
         buildUserPK(d, id) \notin DOMAIN table =>
           \A u \in UserPatches, ts \in ClockReads(1) :
             NotFound(table, updateUser(table, d, id, u, ts), "User")

\* a task has been deleted while another item is stored, and an update of
\* the deleted task fails
C14_Witness ==
  /\ last.op = "deleteTask"
  /\ buildTaskPK(last.domain, last.id) \notin DOMAIN table
  /\ table # <<>>
  /\ updateTask(table, last.domain, last.id, [status |-> "in-progress"],
                "ann@acme.com",
                [i \in 1..UpdateReads |-> now]).status = "Task not found"
  /\ addActivity(table, last.domain, last.id,
                 [type |-> "comment", text |-> "hi", author |-> "ann@acme.com"],
                 [i \in 1..3 |-> now]).table = table
\* C15: handlers map not-found to 404.  updateTaskHandler,
\* updateTicketHandler, updateUserHandler and addCommentHandler, invoked with
\* an id for which the caller's domain stores no entity, answer with status
\* 404.
C15_NotFoundIs404 ==
  \A d \in Domains, by \in Actors, ts \in ClockReads(UpdateReads) :
    /\ \A id \in TaskIds :
         getTask(table, d, id) = Null =>
           /\ \A u \in TaskPatches :
                updateTaskHandler(table, d, by, id, u, ts).statusCode = 404
           /\ addCommentHandler(table, d, by, id, [comment |-> "hi"],
                                ts).statusCode = 404
    /\ \A id \in TicketIds :
         getTicket(table, d, id) = Null =>
           \A u \in {b \in TicketBodies :
                       Has(b, "type") => b.type = JsonString("bug")} :
             updateTicketHandler(table, d, by, id, u, ts).statusCode = 404
    /\ \A id \in UserIds :
         getUser(table, d, id) = Null =>
           \A u \in UserPatches :
             updateUserHandler(table, d, id, u, ts).statusCode = 404
\* the call changed no item other than the one at pk
OnlyAt(tbl, out, pk) == Changed(tbl, out.table) \subseteq {pk}

\* C18: single-item writes, no cascade.  Every store operation and every
\* handler, linkTaskHandler and unlinkTaskHandler included, changes at most
\* the one item addressed by its own (domain, type, id); linking T1 to T2
\* leaves the item of T2 as it was, and deleteTask(T2) leaves T1.linkedTasks
\* still containing the id of T2.
C18_SingleItemWrites ==
  \A d \in Domains, by \in Actors, ts \in ClockReads(UpdateReads) :
    /\ \A p \in TaskPayloads, x \in Suffixes :
         LET out == createTask(table, d, p, by, ts, x)
         IN OnlyAt(table, out, buildTaskPK(d, out.result.id))
    /\ \A id \in TaskIds :
         LET pk == buildTaskPK(d, id)
         IN /\ \A u \in TaskPatches :
                 OnlyAt(table, updateTask(table, d, id, u, by, ts), pk)
            /\ \A a \in Comments :
                 OnlyAt(table, addActivity(table, d, id, a, ts), pk)
            /\ OnlyAt(table, deleteTask(table, d, id), pk)
            /\ \A other \in TaskIds :
                 LET o1 == linkTaskHandler(table, d, by, id, other, ts)
                     o2 == unlinkTaskHandler(table, d, by, id, other, ts)
                     o3 == deleteTask(o1.table, d, other)
                 IN /\ OnlyAt(table, o1, pk)
                    /\ OnlyAt(table, o2, pk)
                    /\ (o1.statusCode = 200 /\ other # id) =>
                         /\ GetItem(o1.table, buildTaskPK(d, other))
                              = GetItem(table, buildTaskPK(d, other))
                         /\ getTask(o3.table, d, other) = Null
                         /\ includes(getTask(o3.table, d, id).linkedTasks, other)
    /\ \A p \in TicketPayloads, x \in Suffixes :
         LET out == createTicket(table, d, p, by, ts, x)
         IN OnlyAt(table, out, buildTicketPK(d, out.result.id))
    /\ \A id \in TicketIds :
         LET pk == buildTicketPK(d, id)
         IN /\ \A u \in TicketPatches :
                 OnlyAt(table, updateTicket(table, d, id, u, by, ts), pk)
            /\ OnlyAt(table, deleteTicket(table, d, id), pk)
    /\ \A p \in UserPayloads, x \in Suffixes :
         \A existingUser \in getUserByEmail(table, d, p.email) :
           LET out == createUser(table, d, p, existingUser, ts, x)
           IN out.status = "ok" =>
                OnlyAt(table, out, buildUserPK(d, out.result.userId))
    /\ \A id \in UserIds :
         LET pk == buildUserPK(d, id)
         IN /\ \A u \in UserPatches :
                 OnlyAt(table, updateUser(table, d, id, u, ts), pk)
            /\ OnlyAt(table, deleteUser(table, d, id), pk)

\* a task has been linked to another stored task, whose item was not
\* touched, and deleting that other task leaves the link in place
C18_Witness ==
  /\ last.op = "linkTask"
  /\ last.arg # last.id
  /\ LET T1 == getTask(table, last.domain, last.id)
         T2 == getTask(table, last.domain, last.arg)
         o3 == deleteTask(table, last.domain, last.arg)
     IN /\ T1 # Null /\ T2 # Null
        /\ includes(T1.linkedTasks, last.arg)
        /\ T2.linkedTasks = <<>>
        /\ T2.updatedAt = T2.createdAt
        /\ getTask(o3.table, last.domain, last.arg) = Null
        /\ getTask(o3.table, last.domain, last.id).linkedTasks = T1.linkedTasks
\* C19: shallow merge.  After updateTask with a patch, every task field
\* absent from the patch, other than updatedAt and activities, has its
\* previous stored value, and every field present in the patch, other than
\* id, domain, activities and updatedAt, has exactly the patched value: a
\* patched linkedTasks replaces the stored array as a whole.
C19_ShallowMerge ==
  \A d \in Domains, id \in TaskIds, by \in Actors :
    LET e == getTask(table, d, id)
    IN e # Null =>
         \A u \in TaskPatches \cup {linkPatch(e, other) : other \in TaskIds}
                              \cup {unlinkPatch(e, other) : other \in TaskIds} :
           \A ts \in ClockReads(UpdateReads) :
           LET out == updateTask(table, d, id, u, by, ts)
               r == getTask(out.table, d, id)
           IN /\ out.status = "ok"
              /\ r = out.result
              /\ DOMAIN r = DOMAIN e \cup DOMAIN u
              /\ \A f \in (DOMAIN e \ DOMAIN u) \ {"updatedAt", "activities"} :
                   r[f] = e[f]
              /\ \A f \in DOMAIN u \ {"id", "domain", "activities", "updatedAt"} :
                   r[f] = u[f]

\* a task that had been linked got a patch with another linkedTasks array,
\* and stores exactly the patched array
C19_Witness ==
  /\ last.op = "updateTask"
  /\ Has(last.arg, "linkedTasks")
  /\ LET task == getTask(table, last.domain, last.id)
     IN /\ task.linkedTasks = last.arg.linkedTasks
        /\ Len(task.linkedTasks) = 1
        /\ task.title = last.arg.title
        /\ \E i \in 1..Len(task.activities) :
             /\ task.activities[i].type = "assignment"
             /\ ~Has(task.activities[i], "metadata")
             /\ task.activities[i].text \in
                  {"Linked to task: A", "Linked to task: B",
                   "Linked to task: Unknown task"}
\* the invocations between their read and their put
Pending(op) ==
  {p \in DOMAIN inflight : inflight[p].pc = "put" /\ inflight[p].op = op}

\* the invocations that have returned
Returned(op, statusCode) ==
  {p \in DOMAIN inflight : /\ inflight[p].pc = "done"
                 /\ inflight[p].op = op
                 /\ inflight[p].statusCode = statusCode}

\* the user profiles of a domain that share their email, ignoring case
SharedEmail(tbl, d) ==
  {pair \in UsersOf(tbl, d) \X UsersOf(tbl, d) :
     /\ pair[1] # pair[2]
     /\ toLowerCase(tbl[pair[1]].data.email)
          = toLowerCase(tbl[pair[2]].data.email)}

\* C11: duplicate email under concurrency.  A createUser invocation that
\* has passed its list read puts its profile whatever has been stored since:
\* when another profile of the domain with the same email was stored in the
\* meantime, the put succeeds and the store holds two profiles sharing the
\* email, so two concurrent creates of one email can both succeed.
C11_DuplicateEmailRace ==
  \A p \in Pending("createUser") :
    LET inv == inflight[p]
        after == putPending(table, inv)
    IN /\ inv.seen = Null
       /\ inv.item.PK \in DOMAIN after
       /\ after[inv.item.PK] = inv.item
       /\ afterPut(inv).statusCode = 201
       /\ (\E pk \in UsersOf(table, inv.domain) \ {inv.item.PK} :
             toLowerCase(table[pk].data.email) = inv.item.data.email)
            => SharedEmail(after, inv.domain) # {}

\* two createUser invocations of one domain and one email have both
\* returned with success and the store holds both profiles
C11_Witness ==
  /\ Returned("createUser", 201) = Procs
  /\ inflight["p1"].domain = inflight["p2"].domain
  /\ inflight["p1"].arg = inflight["p2"].arg
  /\ inflight["p1"].id # inflight["p2"].id
  /\ SharedEmail(table, inflight["p1"].domain) # {}
  /\ Cardinality(UsersOf(table, inflight["p1"].domain)) = 2

\* the fields of a task that a patch leaves alone
Untouched(task, patch) ==
  (DOMAIN task \ DOMAIN patch) \ {"activities", "updatedAt"}

\* C16: lost update.  An updateTask invocation between its read and its put
\* writes, for every field outside its patch, the value it read, without
\* looking at what is stored now: the put succeeds, and a value that
\* another updateTask wrote to such a field since the read is gone from the
\* stored task.
C16_LostUpdate ==
  \A p \in Pending("updateTask") :
    LET inv == inflight[p]
        after == putPending(table, inv)
        stored == getTask(after, inv.domain, inv.id)
    IN /\ stored = inv.item.data
       /\ afterPut(inv).statusCode = 200
       /\ \A f \in Untouched(inv.seen, inv.arg) : stored[f] = inv.seen[f]
       /\ \A f \in DOMAIN inv.arg \ {"id", "domain", "activities"} :
            stored[f] = inv.arg[f]

\* two updateTask invocations on one task with patches of different fields
\* have both returned with success, and the stored task has the value of one
\* patch and not the value of the other
C16_Witness ==
  /\ Returned("updateTask", 200) = Procs
  /\ DOMAIN inflight["p1"].arg \subseteq Tracked
  /\ DOMAIN inflight["p2"].arg \subseteq Tracked
  /\ inflight["p1"].domain = inflight["p2"].domain
  /\ inflight["p1"].id = inflight["p2"].id
  /\ DOMAIN inflight["p1"].arg \cap DOMAIN inflight["p2"].arg = {}
  /\ LET task == getTask(table, inflight["p1"].domain, inflight["p1"].id)
     IN \E p \in Procs, q \in Procs :
          /\ \A f \in DOMAIN inflight[p].arg : task[f] = inflight[p].arg[f]
          /\ \E f \in DOMAIN inflight[q].arg : task[f] # inflight[q].arg[f]

\* the pending puts to tasks
PendingTaskPuts ==
  {p \in DOMAIN inflight :
     /\ inflight[p].pc = "put"
     /\ inflight[p].op \in {"updateTask", "addActivity", "linkTask",
                            "unlinkTask"}}

\* C17 as stated: activities only grow under concurrency.  Under every
\* interleaving of updateTask, addActivity, link and unlink invocations on a
\* task, every write stores an activities list that has the list stored
\* just before the write as a prefix.
C17_ActivitiesGrowConcurrent_Original ==
  \A p \in PendingTaskPuts :
    LET inv == inflight[p]
        stored == getTask(table, inv.domain, inv.id)
    IN stored # Null =>
         IsPrefix(stored.activities,
                  getTask(putPending(table, inv), inv.domain, inv.id).activities)

\* C17: activities only grow, as the code has it.  Every write of
\* updateTask, addActivity, link and unlink stores an activities list that
\* has the list its own invocation read as a prefix; activities that another
\* invocation stored between that read and the write are not kept.
C17_ActivitiesGrowConcurrent ==
  \A p \in PendingTaskPuts :
    LET inv == inflight[p]
        after == getTask(putPending(table, inv), inv.domain, inv.id)
    IN /\ IsPrefix(inv.seen.activities, after.activities)
       /\ after.activities = inv.item.data.activities
       /\ Len(after.activities) <= Len(inv.seen.activities) + 2

\* an invocation is about to put a log that lacks an activity stored since
\* its read
C17_Witness ==
  \E p \in PendingTaskPuts :
    LET inv == inflight[p]
        stored == getTask(table, inv.domain, inv.id)
    IN /\ stored # Null
       /\ Len(stored.activities) > Len(inv.seen.activities)
       /\ IsPrefix(inv.seen.activities, stored.activities)
       /\ ~IsPrefix(stored.activities, inv.item.data.activities)

\* the log has an entry of linkTaskHandler
HasLinkNote(task) ==
  \E i \in 1..Len(task.activities) :
    /\ task.activities[i].type = "assignment"
    /\ ~Has(task.activities[i], "metadata")
    /\ SubSeq(task.activities[i].text, 1, 6) = "Linked"

\* C20: link is two non-atomic writes.  The put of the updateTask call of
\* linkTaskHandler stores linkedTasks with the target id and the activities
\* as they were read, with the addActivity call still to come: the state
\* after it has the link without its "Linked to task" entry, and stays so
\* when the addActivity call fails.
C20_LinkNotAtomic ==
  \A p \in Pending("linkTask") :
    LET inv == inflight[p]
        after == getTask(putPending(table, inv), inv.domain, inv.id)
    IN inv.calls # <<>> =>
         /\ Len(inv.calls) = 1
         /\ inv.calls[1].call = "addActivity"
         /\ includes(after.linkedTasks, inv.arg)
         /\ after.activities = inv.seen.activities
         /\ afterPut(inv).pc = "read"
         /\ afterPut(inv).calls = inv.calls

\* linkTaskHandler has returned 500 after its first put: the task has the
\* link and no entry for it
C20_Witness ==
  \E p \in Returned("linkTask", 500) :
    LET task == getTask(table, inflight[p].domain, inflight[p].id)
    IN /\ task # Null
       /\ includes(task.linkedTasks, inflight[p].arg)
       /\ ~HasLinkNote(task)
       /\ last.op = "linkTask"

(***************************************************************************)
(* The envelope of a stored item against its payload.                      *)
(***************************************************************************)
\* the primary key the builders give the payload of an item
KeyOfData(item) ==
  CASE item.entityType = "TASK" -> buildTaskPK(item.data.domain, item.data.id)
    [] item.entityType = "TICKET" ->
         buildTicketPK(item.data.domain, item.data.id)
    [] item.entityType = "USER" ->
         buildUserPK(item.data.domain, item.data.userId)

\* the keys and the domain of the envelope are those of the payload
EnvelopeKeys(pk, item) ==
  /\ item.PK = pk
  /\ item.SK = "META"
  /\ item.PK = KeyOfData(item)
  /\ item.GSI1PK = buildDomainGSI1PK(item.data.domain, item.entityType)
  /\ item.domain = item.data.domain
  /\ item.updatedAt = item.data.updatedAt
  /\ item.createdAt = item.GSI1SK

\* C21: envelope/payload consistency.  In every reachable state each stored
\* item has SK = "META", its PK is the key built from data.domain and
\* data.id, its GSI1PK is built from data.domain and its entity type, the
\* envelope domain is data.domain, the envelope createdAt equals
\* data.createdAt and GSI1SK, and the envelope updatedAt equals
\* data.updatedAt.
C21_EnvelopeConsistent ==
  \A pk \in DOMAIN table :
    /\ EnvelopeKeys(pk, table[pk])
    /\ table[pk].createdAt = table[pk].data.createdAt

(***************************************************************************)
(* Ticket types.                                                           *)
(***************************************************************************)
\* the type values of the requests that are bug or feature once lower-cased
LowersToValid ==
  {JsonString("bug"), JsonString("BUG"), JsonString("Feature")}

\* the request carries a type that is not bug or feature after lower-casing
BadType(body) == Has(body, "type") /\ body.type \notin LowersToValid

\* the handler answered 400 and wrote nothing
Rejected(out) == out.statusCode = 400 /\ out.table = table

\* C22: ticket type is always valid.  After any sequence of
\* createTicketHandler and updateTicketHandler requests with missing,
\* wrongly cased, non-string or unknown type values, and with a stored
\* legacy ticket that has no type, every ticket returned by getTicket and
\* getTickets has type bug or feature; a request whose type is not bug or
\* feature after lower-casing is answered 400 and writes nothing; a stored
\* ticket without type reads as feature.
C22_TicketTypeValid ==
  /\ \A d \in Domains :
       /\ \A id \in TicketIds \cup {LegacyTicketId} :
            LET ticket == getTicket(table, d, id)
                pk == buildTicketPK(d, id)
            IN ticket # Null =>
                 /\ ticket.type \in {"bug", "feature"}
                 /\ ~Has(table[pk].data, "type") => ticket.type = "feature"
       /\ \A r \in getTickets(table, d) :
            \A i \in 1..Len(r) : r[i].type \in {"bug", "feature"}
  /\ \A d \in Domains, by \in Actors, body \in TicketBodies :
       BadType(body) =>
         /\ \A x \in Suffixes, ts \in ClockReads(2) :
              Rejected(createTicketHandler(table, d, by, body, ts, x))
         /\ \A id \in TicketIds \cup {LegacyTicketId}, ts \in ClockReads(1) :
              Rejected(updateTicketHandler(table, d, by, id, body, ts))

\* a wrongly cased type was stored lower-cased next to the legacy ticket,
\* which reads as feature
C22_Witness ==
  /\ last.op = "createTicket"
  /\ last.arg.type = JsonString("BUG")
  /\ getTicket(table, last.domain, last.id).type = "bug"
  /\ buildTicketPK("acme", LegacyTicketId) \in DOMAIN table
  /\ ~Has(table[buildTicketPK("acme", LegacyTicketId)].data, "type")
  /\ getTicket(table, "acme", LegacyTicketId).type = "feature"
  /\ updateTicketHandler(table, last.domain, "ann@acme.com", last.id,
                         [type |-> JsonString("task")],
                         <<now>>).statusCode = 400

(***************************************************************************)
(* The first entry of the log.                                             *)
(***************************************************************************)
\* the entry createTask logs for the task it stamps at clock c for the actor
CreatedEntry(taskId, c, by) ==
  [id |-> taskId \o "-created",
   type |-> "created",
   text |-> "Task created",
   author |-> by,
   timestamp |-> toISOString(c)]

\* C23: the log starts with the created entry.  createTask stores a task
\* whose activities list has exactly one entry, of type "created", with id
\* "{taskId}-created" and the creating actor as author; with operations
\* running one at a time, the first entry of every stored task's activities
\* is that entry after any sequence of updateTask, addActivity, link and
\* unlink calls.
C23_LogStartsWithCreated ==
  /\ \A d \in Domains, p \in TaskPayloads, x \in Suffixes,
        by \in {"ann@acme.com", "bob@globex.com"}, ts \in ClockReads(2) :
       LET out == createTask(table, d, p, by, ts, x)
       IN /\ out.result.activities =
               <<CreatedEntry(out.result.id, ts[2], by)>>
          /\ getTask(out.table, d, out.result.id).activities =
               <<CreatedEntry(out.result.id, ts[2], by)>>
  /\ \A d \in Domains, id \in TaskIds :
       LET task == getTask(table, d, id)
       IN task # Null =>
            /\ Len(task.activities) >= 1
            /\ \E by \in Actors, c \in Clock :
                 task.activities[1] = CreatedEntry(id, c, by)

\* a task that was updated and then linked still has its created entry first
C23_Witness ==
  /\ last.op = "linkTask"
  /\ LET task == getTask(table, last.domain, last.id)
     IN /\ Len(task.activities) >= 3
        /\ task.activities[1].type = "created"
        /\ task.activities[2].type = "status_change"
        /\ task.activities[3].text = "Linked to task: Unknown task"

(***************************************************************************)
(* Deletes next to concurrent writers.                                     *)
(***************************************************************************)
\* the task (d, id) was deleted and not created since
Deleted(d, id) == <<"TASK", d, id>> \notin live

\* C24, as stated: a deleted task stays deleted.  Under every interleaving
\* of deleteTask(d, id) with concurrent updateTask, addActivity and link
\* invocations on the same id, once the delete has been applied and no
\* createTask follows, getTask(d, id) returns absent in every later state;
\* an invocation that read the task before the delete does not put it back.
C24_DeletedStaysDeleted_Original ==
  \A d \in Domains, id \in TaskIds :
    Deleted(d, id) => getTask(table, d, id) = Null

\* C24, amended: deleteTask(d, id) leaves getTask(d, id) absent, and an
\* absent task is stored again only by createTask or by the put of a store
\* call that read the task before it was deleted; that put stores the item
\* built from what was read.
C24_DeletedStaysDeleted ==
  [][\A d \in Domains, id \in TaskIds :
       LET pk == buildTaskPK(d, id)
           key == <<"TASK", d, id>>
       IN /\ (key \in live /\ key \notin live') =>
               getTask(table', d, id) = Null
          /\ (getTask(table, d, id) = Null /\ getTask(table', d, id) # Null) =>
               \/ key \in live' /\ key \notin live
               \/ \E p \in DOMAIN inflight :
                    /\ inflight[p].pc = "put"
                    /\ inflight[p].item.PK = pk
                    /\ inflight[p].seen # Null
                    /\ table'[pk] = inflight[p].item
                    /\ inflight'[p].pc # "put"]_vars

\* an updateTask that read the task before the delete has put it back and
\* returned 200: the task is stored though it was deleted
C24_Witness ==
  /\ Returned("updateTask", 200) # {}
  /\ last.op = "updateTask"
  /\ Deleted(last.domain, last.id)
  /\ getTask(table, last.domain, last.id) # Null

(***************************************************************************)
(* Key construction.                                                       *)
(***************************************************************************)
\* C25: key construction is injective.  For all domain strings, entity
\* types in {TASK, TICKET, USER, SPRINT} and id strings, those containing
\* the separator '#' included, two different (domain, type, id) triples
\* never produce the same PK and two different (domain, type) pairs never
\* produce the same GSI1PK.
C25_KeysInjective ==
  last.op = "buildKeys" =>
    \A d \in KeyDomains, type \in EntityTypes :
      /\ \A id \in KeyIds :
           buildPK(d, type, id) = last.PK =>
             <<d, type, id>> = <<last.domain, last.type, last.id>>
      /\ buildDomainGSI1PK(d, type) = last.GSI1PK =>
           <<d, type>> = <<last.domain, last.type>>

(***************************************************************************)
(* Activity ids.                                                           *)
(***************************************************************************)
\* C26: activity ids are unique within a task.  After any sequence of
\* createTask, updateTask and addActivity calls on a task, with a clock that
\* does not go back but may give consecutive calls the same millisecond,
\* the entries of the stored activities list have pairwise distinct ids.
C26_ActivityIdsUnique ==
  \A d \in Domains, id \in TaskIds :
    LET task == getTask(table, d, id)
    IN task # Null =>
         \A i, j \in 1..Len(task.activities) :
           i # j => task.activities[i].id # task.activities[j].id

(***************************************************************************)
(* Creation.                                                               *)
(***************************************************************************)
\* the items of an entity type in a domain
ItemsOf(tbl, d, type) ==
  {pk \in DOMAIN tbl : tbl[pk].GSI1PK = buildDomainGSI1PK(d, type)}

\* the create added one item of the type to the domain and changed no other
AddsOne(tbl, out, d, type) ==
  /\ \A pk \in DOMAIN tbl : pk \in DOMAIN out.table /\ out.table[pk] = tbl[pk]
  /\ Cardinality(ItemsOf(out.table, d, type)) =
       Cardinality(ItemsOf(tbl, d, type)) + 1

\* C27: create never replaces an existing entity.  With ids made of the
\* prefix, the clock value and a suffix from a finite set, where clock
\* values and suffixes may repeat, every createTask, createTicket and
\* createUser adds one new item and leaves every stored item unchanged, so
\* the number of entities of the type in the domain grows by exactly one.
C27_CreateAddsOne ==
  \A d \in Domains, x \in Suffixes, by \in Actors, ts \in ClockReads(2) :
    /\ \A p \in TaskPayloads :
         AddsOne(table, createTask(table, d, p, by, ts, x), d, "TASK")
    /\ \A p \in TicketPayloads :
         AddsOne(table, createTicket(table, d, p, by, ts, x), d, "TICKET")
    /\ \A p \in UserPayloads :
         \A existingUser \in getUserByEmail(table, d, p.email) :
           existingUser = Null =>
             AddsOne(table, createUser(table, d, p, existingUser, ts, x),
                     d, "USER")

(***************************************************************************)
(* linkedTasks under link and unlink.                                      *)
(***************************************************************************)
NoDup(arr) == \A i, j \in 1..Len(arr) : i # j => arr[i] # arr[j]

Occurs(arr, x) == \E i \in 1..Len(arr) : arr[i] = x

\* C28: linkedTasks stays duplicate-free under link/unlink.
\* linkTaskHandler answers 400 and leaves the task unchanged when the target
\* id is already in the source task's linkedTasks; with requests running one
\* at a time, after any sequence of linkTaskHandler and unlinkTaskHandler
\* requests on a task created with empty linkedTasks the stored linkedTasks
\* contains no id twice; an unlink removes every occurrence of the given id.
C28_LinkedTasksNoDup ==
  \A d \in Domains, id \in TaskIds, by \in Actors :
    LET task == getTask(table, d, id)
    IN task # Null =>
         /\ NoDup(task.linkedTasks)
         /\ \A other \in TaskIds, ts \in ClockReads(LinkReads) :
              LET lk == linkTaskHandler(table, d, by, id, other, ts)
                  ul == unlinkTaskHandler(table, d, by, id, other, ts)
              IN /\ Occurs(task.linkedTasks, other) =>
                      lk.statusCode = 400 /\ lk.table = table
                 /\ ~Occurs(task.linkedTasks, other) =>
                      /\ lk.statusCode = 200
                      /\ NoDup(lk.body.task.linkedTasks)
                      /\ Occurs(lk.body.task.linkedTasks, other)
                 /\ ul.statusCode = 200
                 /\ ~Occurs(getTask(ul.table, d, id).linkedTasks, other)
         /\ \A other \in TaskIds, x \in TaskIds,
               ts \in ClockReads(LinkReads) :
              LET twice == updateTask(table, d, id,
                                      [linkedTasks |-> <<other, x, other>>],
                                      by, ts)
                  ul == unlinkTaskHandler(twice.table, d, by, id, other, ts)
              IN getTask(ul.table, d, id).linkedTasks =
                   IF x = other THEN <<>> ELSE <<x>>

\* a task linked to two tasks: linking the first again is answered 400
C28_Witness ==
  /\ last.op = "linkTask"
  /\ LET task == getTask(table, last.domain, last.id)
     IN /\ Len(task.linkedTasks) = 2
        /\ task.linkedTasks[1] # last.arg
        /\ linkTaskHandler(table, last.domain, "ann@acme.com", last.id,
                           task.linkedTasks[1],
                           [i \in 1..LinkReads |-> now]).statusCode = 400

(***************************************************************************)
(* Tenants and email domains.                                              *)
(***************************************************************************)
\* the part of an email after its '@' (empty when there is not exactly one)
DomainPart(email) ==
  LET hits == {i \in 1..Len(email) : email[i] = "@"}
  IN IF Cardinality(hits) = 1
     THEN LET i == CHOOSE k \in hits : TRUE
          IN SubSeq(email, i + 1, Len(email))
     ELSE <<>>

\* the text of a domain part up to its first dot
FirstLabel(part) ==
  LET dots == {i \in 1..Len(part) : part[i] = "."}
  IN IF dots = {} THEN part
     ELSE SubSeq(part, 1, (CHOOSE k \in dots : \A j \in dots : k <= j) - 1)

\* the domain part of the email is the workspace domain, or a name under it,
\* ignoring case
BelongsTo(email, domain) ==
  LET part == toLowerCase(DomainPart(email))
      ws == toLowerCase(Chars(domain))
  IN part # <<>> /\ (part = ws \/ FirstLabel(part) = ws)

\* C29: createUserHandler admits only same-domain emails.  For every caller
\* workspace domain and every submitted email, createUserHandler creates a
\* UserProfile only if the domain part of the email belongs to the caller's
\* workspace domain; for any other email it answers 400 ("User email must be
\* from the same domain as your workspace") and writes nothing.
C29_SameDomainEmailsOnly ==
  \A claims \in Callers, body \in UserBodies, x \in Suffixes,
     ts \in ClockReads(2) :
    LET domain == getUserFromEvent(claims).domain
    IN (body # Null /\ Has(body, "email") /\ Has(body, "name")) =>
         \A existingUser \in getUserByEmail(table, domain, body.email) :
           LET out == createUserHandler(table, domain, body, existingUser,
                                        ts, x)
           IN ~BelongsTo(body.email, domain) =>
                /\ out.statusCode = 400
                /\ out.body.error =
                     "User email must be from the same domain as your workspace"
                /\ out.table = table

\* the callers whose store domain is derived from their email
EmailCallers == {c \in Callers : ~Has(c, "customDomain") /\ Has(c, "email")}

\* C30: tenant derivation separates email domains.  Two authenticated
\* callers without a custom:domain claim get the same store domain from
\* getUserFromEvent only if the domain parts of their emails are equal, so a
\* task created through the handlers by one caller is in the store domain of
\* another caller only if both have the same email domain.
C30_TenantsByEmailDomain ==
  \A c1 \in EmailCallers, c2 \in EmailCallers, id \in TaskIds :
    LET u1 == getUserFromEvent(c1)
        u2 == getUserFromEvent(c2)
        task == getTask(table, u2.domain, id)
    IN (task # Null /\ task.createdBy = u1.email /\ u1.domain = u2.domain) =>
         DomainPart(Chars(u1.email)) = DomainPart(Chars(u2.email))

============================================================================
